---- MODULE Spec2Model ----
(***************************************************************************)
(* Maestro (signalfuse/maestro-ng): the Conductor's dependency planner     *)
(* (maestro/maestro.py, maestro/entities.py) and the sequential Start and  *)
(* Stop orchestration plays (maestro/plays.py), as state machines.         *)
(*                                                                         *)
(* SpecPlan: an environment description is drawn, the Conductor is built   *)
(*           from it and _ordered_containers is called on it repeatedly.   *)
(* SpecPlay: one maestro process: the Conductor is built and one start or  *)
(*           stop command runs its play against the Docker daemons.        *)
(* SpecLinks: the Conductor is built from a description with wants_info    *)
(*           lists; the link variables of every container and the plans.   *)
(* SpecExec: one maestro process from the command line to the exit code:   *)
(*           execute() (maestro/__main__.py), the Conductor command and    *)
(*           _audit_play around its play, keyboard interrupts included.    *)
(* SpecStatus: one maestro process running Conductor.status : the Status   *)
(*           and FullStatus plays.                                         *)
(* SpecEntities: one call of the constructors and accessors of            *)
(*           maestro/entities.py: _parse_ports, get_link_variables, the    *)
(*           limits, the environment and the volumes of a Container.       *)
(* SpecFilter: as SpecExec, for start and stop given with the container    *)
(*           and ship filters of the command line.                         *)
(* SpecComplete: one call of Conductor.complete on a list of tokens.       *)
(* SpecDeptree: the Conductor is built and Conductor.deptree is called.    *)
(* SpecLoader: one document loaded with the MaestroYamlLoader              *)
(*           (maestro/loader.py).                                          *)
(* SpecConstruct: the Conductor is built from a description that may lack  *)
(*           its name and may declare no instance.                         *)
(* SpecCache: Container.status called several times while the daemon      *)
(*           gains and loses the container.                                *)
(* SpecWait: one call of Start._wait_for_status, poll by poll.             *)
(* SpecGather: the Conductor is built and _gather_dependencies is called.  *)
(* SpecWire: the Conductor is built from a description with chains and     *)
(*           cycles of requires and one stop command runs its play.        *)
(* SpecRegistry: the entity-building loop of Conductor.__init__ on         *)
(*           services written with the names of their own instances.       *)
(*                                                                         *)
(* maestro.py hands the plays more arguments (ignore_dependencies,         *)
(* concurrency, reuse) than plays.py takes; the plays are modelled as      *)
(* plays.py defines them, so these arguments reach the command and have no *)
(* effect on the play.  Container.ping and Ship._bind_to_ip are used by    *)
(* plays.py and defined in other modules: the probe is an answer of the     *)
(* environment, the bind address is not modelled.                          *)
(***************************************************************************)
EXTENDS Integers, Sequences, FiniteSets, TLC

\* ------------------------------------------------------------------ bounds
\* At most this many `requires` entries in the whole environment description.
MaxEdges == 3
\* At most this many names in the `things` list of one call.
MaxThings == 2
\* At most this many _ordered_containers calls on one process.
MaxCalls == 2
\* At most this many `requires` entries in a description with wants_info lists.
MaxLinkEdges == 2

\* ------------------------------------------------------------ the universe
\* Service names of the environment description.
ServiceNames == {"a", "b", "c"}
\* A name a `requires` list may carry that no service defines.
UnknownName == "zz"
\* Container (instance) names, listed in ascending name order; "a" is also
\* the name of a service.
ContainerNames == <<"a", "c1", "c2", "c3">>

Range(s) == {s[i] : i \in 1..Len(s)}
\* The instance names that are the name of no service.
AllNames == Range(ContainerNames) \ ServiceNames

\* Container.__lt__ : containers compare by name.
Pos(c) == CHOOSE i \in 1..Len(ContainerNames) : ContainerNames[i] = c
Lt(c, d) == Pos(c) < Pos(d)
\* sorted(<set of containers>)
sorted(S) == SelectSeq(ContainerNames, LAMBDA c : c \in S)

\* The `instances` sections of the descriptions drawn: which service each
\* container is an instance of.
InstanceMaps ==
  { [c \in AllNames |-> CASE c = "c1" -> "a" [] c = "c2" -> "b" [] OTHER -> "c"],
    [c \in AllNames |-> CASE c = "c1" -> "a" [] c = "c2" -> "a" [] OTHER -> "b"],
    [c \in AllNames |-> CASE c = "c1" -> "b" [] c = "c2" -> "a" [] OTHER -> "a"] }

Edges == ServiceNames \X (ServiceNames \cup {UnknownName})
\* The `wants_info` lists of the descriptions drawn.
WantsOptions ==
  { [s \in ServiceNames |-> {}],
    [s \in ServiceNames |-> IF s = "a" THEN {"b"} ELSE {}],
    [s \in ServiceNames |-> IF s = "a" THEN {} ELSE {"a"}],
    [s \in ServiceNames |-> IF s = "c" THEN {UnknownName} ELSE {}] }
NoWants == [s \in ServiceNames |-> {}]
\* The ships, the ship each instance is placed on and the named ports of
\* each instance in the descriptions drawn.
ShipNames == {"s1", "s2"}
ShipOf == [c \in AllNames |-> IF c = "c2" THEN "s2" ELSE "s1"]
PortsOf == [c \in AllNames |-> IF c = "c1" THEN {"http"} ELSE
                                IF c = "c3" THEN {"http", "db"} ELSE {}]
RequiresOf(E) == [s \in ServiceNames |-> {e[2] : e \in {x \in E : x[1] = s}}]

VARIABLES
  config,          \* the parsed environment description
  phase,           \* "config" (not built), "ready" (Conductor built), "failed"
  _requires,       \* Service._requires of every service
  _needed_for,     \* Service._needed_for of every service
  ordered_default, \* the list object that is the default of `ordered=[]`
  ncalls,          \* number of _ordered_containers calls made so far
  call,            \* arguments of the last _ordered_containers call
  result,          \* what that call returned or raised
  docker,          \* the Docker daemons: the container of each name
  _status,         \* Container._status of every container (the cached status)
  cmd,             \* the Conductor command being executed and its arguments
  _containers,     \* BaseOrchestrationPlay._containers of the play
  idx,             \* position of the play's loop in that list
  pc,              \* position of the play inside the loop body
  task,            \* locals of the current loop iteration
  log,             \* daemon and probe calls issued by the current iteration
  results,         \* what the play committed for the containers done so far
  active,          \* containers whose task has begun and not ended
  exc,             \* the exception the command raised ("None": none)
  _wants_info,     \* Service._wants_info of every service
  env,             \* the link variables in Container.env of every container
  strays,          \* same-named containers at the daemon of the other ship
  options,         \* the parsed command line execute() is given
  audit,           \* the calls the auditor has received
  rc,              \* what execute() returned (NoReturn: it has not returned)
  stderr,          \* what execute() wrote to sys.stderr
  interrupted      \* a KeyboardInterrupt was raised during the command

planvars == <<config, phase, _requires, _needed_for, ordered_default, ncalls, call, result>>
playvars == <<docker, _status, cmd, _containers, idx, pc, task, log, results, active, exc>>
auxvars == <<_wants_info, env, strays, options, audit, rc, stderr, interrupted>>
vars == <<planvars, playvars, auxvars>>

NoCall == [op |-> "none", things |-> {}, forward |-> TRUE]
NoResult == [exc |-> "None", names |-> <<>>, plan |-> <<>>]

\* -------------------------------------------------------------- entities.py
\* Conductor.containers : the containers of the environment, by name.
Containers == DOMAIN config.instances
\* Service.containers : the instances of a service.
containers_of(s) == {c \in Containers : config.instances[c] = s}

\* The interpreter's recursion limit.  A recursion over the services that is
\* deeper than the number of services has revisited one of them, repeats from
\* there forever and ends only at that limit.
RecursionLimit == Cardinality(ServiceNames)

Overflow == [ok |-> FALSE, val |-> {}]
Ok(v) == [ok |-> TRUE, val |-> v]

\* Service.requires / Service.needed_for : the direct set, united with the same
\* property of every member of the direct set.
RECURSIVE closure(_, _, _)
closure(direct, s, depth) ==
  IF depth > RecursionLimit THEN Overflow
  ELSE LET subs == {closure(direct, d, depth + 1) : d \in direct[s]}
       IN IF \E r \in subs : ~r.ok THEN Overflow
          ELSE Ok(direct[s] \cup UNION {r.val : r \in subs})

requires_with_wants_info(s) ==
  closure([x \in ServiceNames |-> _requires[x] \cup _wants_info[x]], s, 0)
requires(s) == closure(_requires, s, 0)
needed_for(s) == closure(_needed_for, s, 0)

\* _to_env_var_name : re.sub(r'[^\w]', '_', n).upper().  The names drawn hold
\* no character that is replaced; they are upper-cased.
_to_env_var_name(n) ==
  CASE n = "a" -> "A" [] n = "b" -> "B" [] n = "c" -> "C"
    [] n = "c1" -> "C1" [] n = "c2" -> "C2" [] n = "c3" -> "C3"
    [] n = "http" -> "HTTP" [] n = "db" -> "DB"
\* A variable name is kept as the parts that the format strings join with
\* '_'; for the names drawn two joined names are equal iff their parts are.
\* Values: the ship's ip, the external or exposed port number of a named port
\* of a container, the instance names of a service.
\* Container.get_link_variables
container_link_variables(c, add_internal) ==
  LET basename == _to_env_var_name(c)
  IN {[key |-> <<basename, "HOST">>, value |-> <<"ip", config.ships[c]>>]}
     \cup {[key |-> <<basename, _to_env_var_name(p), "PORT">>,
            value |-> <<"external", c, p>>] : p \in config.ports[c]}
     \cup (IF add_internal
           THEN {[key |-> <<basename, _to_env_var_name(p), "INTERNAL_PORT">>,
                  value |-> <<"exposed", c, p>>] : p \in config.ports[c]}
           ELSE {})
\* Service.get_link_variables
get_link_variables(s, add_internal) ==
  LET basename == _to_env_var_name(s)
  IN {[key |-> <<basename>> \o v.key, value |-> v.value] :
         v \in UNION {container_link_variables(c, add_internal) : c \in containers_of(s)}}
     \cup {[key |-> <<basename, "INSTANCES">>, value |-> <<"names", containers_of(s)>>]}
\* dict.update
update(d, links) ==
  {e \in d : \A l \in links : l.key # e.key} \cup links
RECURSIVE update_each(_, _)
update_each(d, services) ==
  IF services = {} THEN d
  ELSE LET dependency == CHOOSE x \in services : TRUE
       IN update_each(update(d, get_link_variables(dependency, FALSE)),
                      services \ {dependency})

\* --------------------------------------------------------------- maestro.py
\* Conductor._gather_dependencies : the given containers (all of them when
\* none is given) and the containers of every service in requires/needed_for
\* of their services.
_gather_dependencies_direct(containers, forward) ==
  LET start == IF containers = {} THEN Containers ELSE containers
      deps == {IF forward THEN _requires[config.instances[c]]
                          ELSE _needed_for[config.instances[c]] : c \in start}
  IN Ok(start \cup UNION {containers_of(s) : s \in UNION deps})
_gather_dependencies(containers, forward) ==
  LET start == IF containers = {} THEN Containers ELSE containers
      deps == {IF forward THEN requires(config.instances[c])
                          ELSE needed_for(config.instances[c]) : c \in start}
  IN IF \E r \in deps : ~r.ok THEN Overflow
     ELSE Ok(start \cup UNION {containers_of(s) : s \in UNION {r.val : r \in deps}})

\* Conductor._to_containers : names of containers or services to containers.
IsThing(t) == t \in Containers \/ t \in ServiceNames
parse_thing_named_only(t) == IF t \in Containers THEN {t} ELSE {}
parse_thing(t) == IF t \in Containers THEN {t} ELSE containers_of(t)
_to_containers(things) ==
  IF \E t \in things : ~IsThing(t)
  THEN [exc |-> "OrchestrationException", val |-> {}]
  ELSE [exc |-> "None", val |-> UNION {parse_thing(t) : t \in things}]

\* The for-loop of Conductor._order_dependencies over `pending`.
RECURSIVE order_loop(_, _, _, _, _)
order_loop(pending, i, wait, ordered, forward) ==
  IF i > Len(pending) THEN [exc |-> "None", wait |-> wait, ordered |-> ordered]
  ELSE LET container == pending[i]
           deps == _gather_dependencies({container}, forward)
       IN IF ~deps.ok
          THEN [exc |-> "RuntimeError", wait |-> wait, ordered |-> ordered]
          ELSE IF deps.val # {} /\ ~(deps.val \subseteq (Range(ordered) \cup {container}))
               THEN order_loop(pending, i + 1, Append(wait, container), ordered, forward)
               ELSE order_loop(pending, i + 1, wait, Append(ordered, container), forward)

\* Conductor._order_dependencies : `ordered` is the list the caller passes, and
\* the list of the default argument when the caller passes none; the appends
\* are made to that list.  Returns the exception raised ("None" for a normal
\* return), the names of the message, and the list as it is left.
RECURSIVE _order_dependencies(_, _, _)
_order_dependencies(pending, ordered, forward) ==
  LET r == order_loop(pending, 1, <<>>, ordered, forward)
  IN IF r.exc # "None" THEN [exc |-> r.exc, names |-> <<>>, plan |-> r.ordered]
     ELSE IF r.wait # <<>> /\ pending # <<>> /\ Len(r.wait) = Len(pending)
          THEN [exc |-> "DependencyException", names |-> r.wait, plan |-> r.ordered]
          ELSE IF r.wait # <<>>
               THEN _order_dependencies(r.wait, r.ordered, forward)
               ELSE [exc |-> "None", names |-> <<>>, plan |-> r.ordered]

\* Conductor._ordered_containers, called with the default-argument list in the
\* state `ordered`.
_ordered_containers(things, forward, ordered) ==
  LET tc == _to_containers(things)
  IN IF tc.exc # "None" THEN [exc |-> tc.exc, names |-> <<>>, plan |-> ordered]
     ELSE LET g == _gather_dependencies(tc.val, forward)
          IN IF ~g.ok THEN [exc |-> "RuntimeError", names |-> <<>>, plan |-> ordered]
             ELSE _order_dependencies(sorted(g.val), ordered, forward)

\* ------------------------------------------------------------ SpecPlan
\* The names of the `registries` section of the descriptions drawn.
Registries == {<<"r">>}
\* The `name` of the descriptions drawn.
TestEnvName == <<"t", "e", "s", "t">>

\* No status (None) and the status of a container as inspect returns it.
NoStatus == [Id |-> 0, Running |-> FALSE]
Absent == [state |-> "absent", id |-> 0]
NoCmd == [op |-> "none", things |-> {}, with_dependencies |-> FALSE,
          ignore_dependencies |-> FALSE, refresh_images |-> FALSE,
          concurrency |-> 0]
NoTask == [ready0 |-> FALSE, existed |-> FALSE, listed |-> FALSE,
           created_seen |-> FALSE, running_seen |-> FALSE,
           result |-> "pending", error |-> "None"]

\* No command has been given yet.
IdlePlay ==
  /\ _status = [c \in Containers |-> NoStatus]
  /\ cmd = NoCmd
  /\ _containers = <<>>
  /\ idx = 0
  /\ pc = "idle"
  /\ task = NoTask
  /\ log = <<>>
  /\ results = <<>>
  /\ active = {}
  /\ exc = "None"

\* The value of rc while execute() has not returned (it returns 0 or 1).
NoReturn == -1
\* execute() has not been entered; the Conductor is not built.
NoOptions == [command |-> "none", things |-> {}, expand_all |-> FALSE,
              with_dependencies |-> FALSE, ignore_dependencies |-> FALSE]
IdleExec ==
  /\ _wants_info = [s \in ServiceNames |-> {}]
  /\ env = [c \in Containers |-> {}]
  /\ strays = [c \in Containers |-> Absent]
  /\ options = NoOptions
  /\ audit = <<>>
  /\ rc = NoReturn
  /\ stderr = <<>>
  /\ interrupted = FALSE

InitPlan ==
  /\ \E E \in SUBSET Edges, m \in InstanceMaps :
       /\ Cardinality(E) <= MaxEdges
       /\ config = [requires |-> RequiresOf(E), instances |-> m,
                    image |-> <<"a">>, registries |-> Registries, name |-> TestEnvName,
                    wants_info |-> NoWants, ships |-> ShipOf, ports |-> PortsOf]
  /\ docker = [c \in Containers |-> Absent]
  /\ phase = "config"
  /\ _requires = [s \in ServiceNames |-> {}]
  /\ _needed_for = [s \in ServiceNames |-> {}]
  /\ ordered_default = <<>>
  /\ ncalls = 0
  /\ call = NoCall
  /\ result = NoResult
  /\ IdlePlay
  /\ IdleExec

\* Conductor.__init__ : services[dependency] of a name no service has raises
\* KeyError; the link-variable loop then reads service.requires of every
\* service that has a container.
HasUnknownDependency == \E s \in ServiceNames : UnknownName \in config.requires[s]
HasUnknownWantsInfo == \E s \in ServiceNames : UnknownName \in config.wants_info[s]
ConfigNeededFor_of_itself == [s \in ServiceNames |-> config.requires[s] \cap ServiceNames]
ConfigNeededFor == [s \in ServiceNames |-> {k \in ServiceNames : s \in config.requires[k]}]
LinkLoopOverflows ==
  \E s \in ServiceNames :
     containers_of(s) # {} /\ ~closure(config.requires, s, 0).ok

\* The link-variable loop of Conductor.__init__ for one container: the link
\* variables of its own service with the internal ports, then those of every
\* service of requires and wants_info.
linked_env_direct_requires(c) ==
  LET service == config.instances[c]
  IN update_each(update({}, get_link_variables(service, TRUE)),
                 config.requires[service] \cup config.wants_info[service])
linked_env(c) ==
  LET service == config.instances[c]
  IN update_each(update({}, get_link_variables(service, TRUE)),
                 closure(config.requires, service, 0).val \cup config.wants_info[service])

\* Conductor.__init__ : self._config['name'] is read for every instance of
\* every service, and raises KeyError in a description with no `name`.
MissingName == "name" \notin DOMAIN config
NameLookupFails == MissingName /\ Containers # {}

Construct ==
  /\ phase = "config"
  /\ IF NameLookupFails \/ HasUnknownDependency \/ HasUnknownWantsInfo
     THEN /\ phase' = "failed"
          /\ result' = [NoResult EXCEPT !.exc = "KeyError"]
          /\ UNCHANGED <<_requires, _needed_for, _wants_info, env>>
     ELSE /\ _requires' = config.requires
          /\ _needed_for' = ConfigNeededFor
          /\ _wants_info' = config.wants_info
          /\ IF LinkLoopOverflows
             THEN /\ phase' = "failed"
                  /\ result' = [NoResult EXCEPT !.exc = "RuntimeError"]
                  /\ UNCHANGED env
             ELSE /\ phase' = "ready"
                  /\ env' = [c \in Containers |-> linked_env(c)]
                  /\ UNCHANGED result
  /\ UNCHANGED <<config, ordered_default, ncalls, call>>
  /\ UNCHANGED <<strays, options, audit, rc, stderr, interrupted>>
  /\ UNCHANGED playvars

ThingNames == AllNames \cup ServiceNames \cup {UnknownName}

OrderedContainers ==
  /\ phase = "ready"
  /\ ncalls < MaxCalls
  /\ \E things \in SUBSET ThingNames, forward \in BOOLEAN :
       /\ Cardinality(things) <= MaxThings
       /\ LET r == _ordered_containers(things, forward, ordered_default)
          IN /\ result' = r
             /\ ordered_default' = r.plan
       /\ call' = [op |-> "_ordered_containers", things |-> things, forward |-> forward]
  /\ ncalls' = ncalls + 1
  /\ UNCHANGED <<config, phase, _requires, _needed_for>>
  /\ UNCHANGED playvars
  /\ UNCHANGED auxvars

NextPlan == Construct \/ OrderedContainers

SpecPlan == InitPlan /\ [][NextPlan]_vars

\* ------------------------------------------------------------ SpecLinks
\* As SpecPlan, over descriptions that also carry wants_info lists.
InitLinks ==
  /\ \E E \in SUBSET Edges, m \in InstanceMaps, w \in WantsOptions :
       /\ Cardinality(E) <= MaxLinkEdges
       /\ config = [requires |-> RequiresOf(E), instances |-> m,
                    image |-> <<"a">>, registries |-> Registries, name |-> TestEnvName,
                    wants_info |-> w, ships |-> ShipOf, ports |-> PortsOf]
  /\ docker = [c \in Containers |-> Absent]
  /\ phase = "config"
  /\ _requires = [s \in ServiceNames |-> {}]
  /\ _needed_for = [s \in ServiceNames |-> {}]
  /\ ordered_default = <<>>
  /\ ncalls = 0
  /\ call = NoCall
  /\ result = NoResult
  /\ IdlePlay
  /\ IdleExec

\* The first _ordered_containers call of the process.
FirstOrderedContainers == ncalls = 0 /\ OrderedContainers

NextLinks == Construct \/ FirstOrderedContainers

SpecLinks == InitLinks /\ [][NextLinks]_vars

\* ------------------------------------------------------------ the plays
\* At most this limit is given as `concurrency`.
MaxConcurrency == 2
\* retries=10 of Start._wait_for_status.
DefaultRetries == 10

\* Image names of the descriptions drawn, as strings of characters.
Latest == <<"latest">>
PlayImages == { <<"a">>, <<"r", "/", "a", ":", "t">>, <<"r", ":", "5", "/", "a">> }
\* What backend.images(name=repository) may list: the tags of the local images.
LocalTagSets == { {}, {Latest}, {<<"t">>} }

\* str.find and str.rfind of a character, as Python counts (-1: not found).
find(str, ch) ==
  IF \E i \in 1..Len(str) : str[i] = ch
  THEN (CHOOSE i \in 1..Len(str) : str[i] = ch /\ \A j \in 1..(i - 1) : str[j] # ch) - 1
  ELSE -1
rfind(str, ch) ==
  IF \E i \in 1..Len(str) : str[i] = ch
  THEN (CHOOSE i \in 1..Len(str) : str[i] = ch /\ \A j \in (i + 1)..Len(str) : str[j] # ch) - 1
  ELSE -1

\* Service.get_image_details : repository and tag of the image name, split at
\* the last ':' unless what follows it holds a '/'; the tag defaults to latest.
get_image_details(image) ==
  LET k == rfind(image, ":")
      p == IF k = -1 THEN <<image>>
           ELSE <<SubSeq(image, 1, k), SubSeq(image, k + 2, Len(image))>>
      q == IF Len(p) > 1 /\ find(p[2], "/") # -1 THEN <<image>> ELSE p
  IN [repository |-> q[1],
      tag |-> IF Len(q) > 1 /\ q[2] # <<>> THEN q[2] ELSE Latest]

\* Start._login_to_registry : the registry to log in to, <<>> when the method
\* returns without a login.
login_registry(image, registries) ==
  LET repository == get_image_details(image).repository
      k == find(repository, "/")
  IN IF k <= 0 THEN <<>>
     ELSE IF SubSeq(repository, 1, k) \notin registries THEN <<>>
          ELSE SubSeq(repository, 1, k)

\* backend.inspect_container of an existing container.
\* inspect_container : State.Running is true for a running container and
\* for one the daemon is restarting.
Inspect(c) == [Id |-> docker[c].id,
               Running |-> docker[c].state \in {"running", "restarting"}]
Exists(c) == docker[c].state # "absent"
\* Container.status(refresh=True) when the daemon answers: the inspected
\* status is cached; an APIError (no such container) is passed over and the
\* cached status is returned.
status_refreshed(c) == IF Exists(c) THEN Inspect(c) ELSE _status[c]
\* Container.status() : the cached status when there is one.
status_cached(c) == IF _status[c] # NoStatus THEN _status[c] ELSE status_refreshed(c)
\* Whether Container.status() has to ask the daemon.
AsksDaemon(c) == _status[c] = NoStatus

\* Start._wait_for_status : refresh the status while retries >= 0 until cond
\* holds.  raiseAt is the poll at which the daemon call raises (0: none does);
\* needRunning tells the two conditions apart.
Cond(st, needRunning) == st # NoStatus /\ (needRunning => st.Running)
RECURSIVE _wait_for_status(_, _, _, _, _, _)
_wait_for_status(c, cached, needRunning, retries, raiseAt, polls) ==
  IF retries < 0 THEN [ret |-> "False", status |-> cached, polls |-> polls]
  ELSE IF raiseAt = polls + 1
       THEN [ret |-> "raise", status |-> cached, polls |-> polls + 1]
       ELSE LET st == IF Exists(c) THEN Inspect(c) ELSE cached
            IN IF Cond(st, needRunning)
               THEN [ret |-> "True", status |-> st, polls |-> polls + 1]
               ELSE _wait_for_status(c, st, needRunning, retries - 1, raiseAt, polls + 1)

\* The container of the current loop iteration.
Cur == _containers[idx]
Mutating == {"remove", "login", "pull", "create", "start", "stop"}
Truthy(error) == error \in {"exception", "logs"}

\* The loop of a play moves to position i: the iteration of the current
\* container is over; the next one begins, or the loop is over and run()
\* returns.
leave_not(S, c) == S
leave(S, c) == S \ {c}
Advance(i, first) ==
  /\ idx' = i
  /\ log' = <<>>
  /\ task' = NoTask
  /\ IF i <= Len(_containers)
     THEN pc' = first /\ active' = leave(active, Cur) \cup {_containers[i]}
     ELSE pc' = "done" /\ active' = leave(active, Cur)

\* An exception inside the try block of Start.run : error = e.
Raised ==
  /\ task' = [task EXCEPT !.error = "exception"]
  /\ pc' = "end"

\* The container list of a command: the ordered closure with
\* with_dependencies, the expansion of the names sorted by name without.
command_containers_no_dependencies(things, with_dependencies, forward, ordered) ==
  LET tc == _to_containers(things)
  IN [exc |-> tc.exc, names |-> <<>>, plan |-> sorted(tc.val)]
command_containers(things, with_dependencies, forward, ordered) ==
  IF with_dependencies THEN _ordered_containers(things, forward, ordered)
  ELSE LET tc == _to_containers(things)
       IN [exc |-> tc.exc, names |-> <<>>, plan |-> sorted(tc.val)]

BeginPlay(op, r, first) ==
  IF r.exc # "None"
  THEN /\ exc' = r.exc /\ pc' = "raised"
       /\ UNCHANGED <<_containers, idx, active>>
  ELSE /\ _containers' = r.plan
       /\ idx' = 1
       /\ exc' = "None"
       /\ IF r.plan # <<>> THEN pc' = first /\ active' = {r.plan[1]}
                           ELSE pc' = "done" /\ active' = {}

PlayThings == Containers \cup {UnknownName}

\* Conductor.start : plays.Start over the containers of the command.
CmdStart ==
  /\ phase = "ready" /\ pc = "idle"
  /\ \E things \in SUBSET PlayThings, wd \in BOOLEAN, ig \in BOOLEAN,
        rf \in BOOLEAN, cc \in 0..MaxConcurrency :
       /\ Cardinality(things) <= MaxThings
       /\ cmd' = [op |-> "start", things |-> things, with_dependencies |-> wd,
                  ignore_dependencies |-> ig, refresh_images |-> rf,
                  concurrency |-> cc]
       /\ LET r == command_containers(things, wd, TRUE, ordered_default)
          IN /\ BeginPlay("start", r, "ping0")
             /\ ordered_default' = IF wd THEN r.plan ELSE ordered_default
  /\ UNCHANGED <<config, phase, _requires, _needed_for, ncalls, call, result>>
  /\ UNCHANGED <<docker, _status, task, log, results>>
  /\ UNCHANGED auxvars

\* Conductor.stop : plays.Stop over the containers of the command.
CmdStop ==
  /\ phase = "ready" /\ pc = "idle"
  /\ \E things \in SUBSET PlayThings, wd \in BOOLEAN, ig \in BOOLEAN,
        cc \in 0..MaxConcurrency :
       /\ Cardinality(things) <= MaxThings
       /\ cmd' = [op |-> "stop", things |-> things, with_dependencies |-> wd,
                  ignore_dependencies |-> ig, refresh_images |-> FALSE,
                  concurrency |-> cc]
       /\ LET r == command_containers(things, wd, FALSE, ordered_default)
          IN /\ BeginPlay("stop", r, "inspect")
             /\ ordered_default' = IF wd THEN r.plan ELSE ordered_default
  /\ UNCHANGED <<config, phase, _requires, _needed_for, ncalls, call, result>>
  /\ UNCHANGED <<docker, _status, task, log, results>>
  /\ UNCHANGED auxvars

InStart == cmd.op = "start"
InStop == cmd.op = "stop"
Static == UNCHANGED <<planvars, auxvars, cmd, _containers, exc>>

\* Start._start_container : `if container.ping(retries=2): ... return None`.
after_ping0_ignored(ready) == "lookup"
after_ping0(ready) == IF ready THEN "up_id" ELSE "lookup"
\* Start._start_container : `if container.id:` remove the old container.
after_lookup_no_remove(found) == "images"
after_lookup(found) == IF found THEN "remove" ELSE "images"
\* Start._start_container : the image is pulled if refresh_images is set or no
\* local image has the requested tag.
needs_pull_refresh_only(refresh_images, listed) == refresh_images
needs_pull(refresh_images, listed) == refresh_images \/ ~listed

\* Start._start_container : container.ping(retries=2), the readiness probe.
Ping0 ==
  /\ InStart /\ pc = "ping0"
  /\ \E ready \in BOOLEAN :
       /\ task' = [task EXCEPT !.ready0 = ready]
       /\ pc' = after_ping0(ready)
  /\ log' = Append(log, "ping")
  /\ Static /\ UNCHANGED <<docker, _status, idx, results, active>>

\* Start._start_container : the probe passed; container.id[:7] is committed
\* and None is returned.  Without a status container.id is None and the
\* subscript raises.
UpId ==
  /\ InStart /\ pc = "up_id"
  /\ \/ /\ AsksDaemon(Cur)              \* inspect_container raises
        /\ Raised
        /\ UNCHANGED _status
     \/ /\ _status' = [_status EXCEPT ![Cur] = status_cached(Cur)]
        /\ IF status_cached(Cur) = NoStatus
           THEN Raised
           ELSE task' = [task EXCEPT !.result = "None"] /\ pc' = "end"
  /\ Static /\ UNCHANGED <<docker, idx, log, results, active>>

\* Start._start_container : `if container.id:`.
Lookup ==
  /\ InStart /\ pc = "lookup"
  /\ \/ /\ AsksDaemon(Cur)              \* inspect_container raises
        /\ Raised
        /\ UNCHANGED _status
     \/ /\ _status' = [_status EXCEPT ![Cur] = status_cached(Cur)]
        /\ task' = [task EXCEPT !.existed = Exists(Cur)]
        /\ pc' = after_lookup(status_cached(Cur) # NoStatus)
  /\ Static /\ UNCHANGED <<docker, idx, log, results, active>>

\* Start._start_container : backend.remove_container(container.id).
Remove ==
  /\ InStart /\ pc = "remove"
  /\ log' = Append(log, "remove")
  /\ \/ Raised /\ UNCHANGED docker      \* the call raises
     \/ IF Exists(Cur) /\ docker[Cur].id = _status[Cur].Id
        THEN /\ docker' = [docker EXCEPT ![Cur] = [@ EXCEPT !.state = "absent"]]
             /\ pc' = "images"
             /\ UNCHANGED task
        ELSE Raised /\ UNCHANGED docker \* no such container
  /\ Static /\ UNCHANGED <<_status, idx, results, active>>

\* Start._start_container : refresh_images, or else backend.images() has no
\* image with the requested tag.
Images ==
  /\ InStart /\ pc = "images"
  /\ IF cmd.refresh_images
     THEN /\ pc' = IF needs_pull(TRUE, FALSE) THEN "login" ELSE "create"
          /\ UNCHANGED <<task, log>>
     ELSE /\ log' = Append(log, "images")
          /\ \/ Raised
             \/ \E tags \in LocalTagSets :
                  LET listed == get_image_details(config.image).tag \in tags
                  IN /\ task' = [task EXCEPT !.listed = listed]
                     /\ pc' = IF needs_pull(FALSE, listed) THEN "login" ELSE "create"
  /\ Static /\ UNCHANGED <<docker, _status, idx, results, active>>

\* Start._login_to_registry.
Login ==
  /\ InStart /\ pc = "login"
  /\ IF login_registry(config.image, config.registries) = <<>>
     THEN pc' = "pull" /\ UNCHANGED <<task, log>>
     ELSE /\ log' = Append(log, "login")
          /\ \/ Raised                  \* OrchestrationException: login failed
             \/ pc' = "pull" /\ UNCHANGED task
  /\ Static /\ UNCHANGED <<docker, _status, idx, results, active>>

\* Start._start_container : backend.pull(stream=True, **image).
Pull ==
  /\ InStart /\ pc = "pull"
  /\ log' = Append(log, "pull")
  /\ \/ Raised
     \/ pc' = "create" /\ UNCHANGED task
  /\ Static /\ UNCHANGED <<docker, _status, idx, results, active>>

\* Start._start_container : backend.create_container(...).
Create ==
  /\ InStart /\ pc = "create"
  /\ log' = Append(log, "create")
  /\ \/ Raised /\ UNCHANGED docker
     \/ IF Exists(Cur)
        THEN Raised /\ UNCHANGED docker \* the name is taken
        ELSE /\ docker' = [docker EXCEPT ![Cur] =
                             [state |-> "stopped", id |-> docker[Cur].id + 1]]
             /\ pc' = "wait_create"
             /\ UNCHANGED task
  /\ Static /\ UNCHANGED <<_status, idx, results, active>>

\* Start._start_container : _wait_for_status(container, lambda x: x).
WaitCreate ==
  /\ InStart /\ pc = "wait_create"
  /\ \E raiseAt \in 0..(DefaultRetries + 1) :
       LET w == _wait_for_status(Cur, _status[Cur], FALSE, DefaultRetries, raiseAt, 0)
       IN /\ _status' = [_status EXCEPT ![Cur] = w.status]
          /\ IF w.ret = "True"
             THEN task' = [task EXCEPT !.created_seen = TRUE] /\ pc' = "start"
             ELSE Raised
  /\ Static /\ UNCHANGED <<docker, idx, log, results, active>>

\* Start._start_container : backend.start(container.id, ...).  The started
\* container may have exited by the time the call returns.
StartCall ==
  /\ InStart /\ pc = "start"
  /\ log' = Append(log, "start")
  /\ \/ Raised /\ UNCHANGED docker
     \/ IF Exists(Cur) /\ docker[Cur].id = _status[Cur].Id
        THEN /\ \E st \in {"running", "stopped"} :
                  docker' = [docker EXCEPT ![Cur] = [@ EXCEPT !.state = st]]
             /\ pc' = "wait_running"
             /\ UNCHANGED task
        ELSE Raised /\ UNCHANGED docker
  /\ Static /\ UNCHANGED <<_status, idx, results, active>>

\* Start._start_container : _wait_for_status(container,
\* lambda x: x and x['State']['Running']).
WaitRunning ==
  /\ InStart /\ pc = "wait_running"
  /\ \E raiseAt \in 0..(DefaultRetries + 1) :
       LET w == _wait_for_status(Cur, _status[Cur], TRUE, DefaultRetries, raiseAt, 0)
       IN /\ _status' = [_status EXCEPT ![Cur] = w.status]
          /\ IF w.ret = "True"
             THEN task' = [task EXCEPT !.running_seen = TRUE] /\ pc' = "ping60"
             ELSE Raised
  /\ Static /\ UNCHANGED <<docker, idx, log, results, active>>

\* Start._start_container : return container.ping(retries=60).
Ping60 ==
  /\ InStart /\ pc = "ping60"
  /\ log' = Append(log, "ping")
  /\ \E ready \in BOOLEAN :
       IF ready THEN task' = [task EXCEPT !.result = "True"] /\ pc' = "end"
       ELSE task' = [task EXCEPT !.result = "False"] /\ pc' = "logs"
  /\ Static /\ UNCHANGED <<docker, _status, idx, results, active>>

\* Start.run : `if result is False: error = backend.logs(container.id)`.
Logs ==
  /\ InStart /\ pc = "logs"
  /\ log' = Append(log, "logs")
  /\ \E e \in {"exception", "logs", ""} : task' = [task EXCEPT !.error = e]
  /\ pc' = "end"
  /\ Static /\ UNCHANGED <<docker, _status, idx, results, active>>

\* What Start.run commits for the container.
start_label(t) ==
  IF t.error = "exception" THEN "failed to start container!"
  ELSE IF t.result = "None" THEN "up"
  ELSE IF t.result = "True" THEN "started" ELSE "service did not start!"

\* Start.run : the end of the loop body: halt the sequence if error, else go
\* on with the next container.
halts(error) == Truthy(error)
EndStart ==
  /\ InStart /\ pc = "end"
  /\ results' = Append(results, [name |-> Cur, label |-> start_label(task),
                                 ready0 |-> task.ready0])
  /\ IF halts(task.error)
     THEN /\ exc' = "OrchestrationException"
          /\ pc' = "raised"
          /\ active' = leave(active, Cur)
          /\ UNCHANGED <<idx, task, log>>
     ELSE Advance(idx + 1, "ping0") /\ UNCHANGED exc
  /\ UNCHANGED <<planvars, auxvars, cmd, _containers, docker, _status>>

\* Stop.run : container.status(refresh=True); a container that is not there
\* or not running is "already down", an exception is "host down"; the loop
\* continues in both cases.
already_down_never(status) == FALSE
already_down(status) == status = NoStatus \/ ~status.Running
stop_failure_aborts(i) == Len(_containers) + 1
stop_failure_next(i) == i + 1
StopInspect ==
  /\ InStop /\ pc = "inspect"
  /\ \/ /\ results' = Append(results, [name |-> Cur, label |-> "host down",
                                       ready0 |-> FALSE])
        /\ Advance(stop_failure_next(idx), "inspect")
        /\ UNCHANGED _status
     \/ /\ _status' = [_status EXCEPT ![Cur] = status_refreshed(Cur)]
        /\ IF already_down(status_refreshed(Cur))
           THEN /\ results' = Append(results, [name |-> Cur, label |-> "already down",
                                               ready0 |-> FALSE])
                /\ Advance(idx + 1, "inspect")
           ELSE pc' = "stop" /\ UNCHANGED <<idx, task, log, results, active>>
  /\ Static /\ UNCHANGED docker

\* Stop.run : backend.stop(container.id); a failure is committed as "fail!"
\* and the loop continues.
StopCall ==
  /\ InStop /\ pc = "stop"
  /\ \/ /\ results' = Append(results, [name |-> Cur, label |-> "fail!",
                                       ready0 |-> FALSE])
        /\ UNCHANGED docker
        /\ Advance(stop_failure_next(idx), "inspect")
     \/ /\ Exists(Cur) /\ docker[Cur].id = _status[Cur].Id
        /\ docker' = [docker EXCEPT ![Cur] = [@ EXCEPT !.state = "stopped"]]
        /\ results' = Append(results, [name |-> Cur, label |-> "stopped",
                                       ready0 |-> FALSE])
        /\ Advance(idx + 1, "inspect")
  /\ Static /\ UNCHANGED _status

\* ------------------------------------------------------------ SpecPlay
\* One maestro process: the Conductor is built from the description and one
\* command is run on it.
PlayInstances == [c \in {"c1", "c2"} |-> IF c = "c1" THEN "a" ELSE "b"]
PlayShips == [c \in DOMAIN PlayInstances |-> ShipOf[c]]
PlayPorts == [c \in DOMAIN PlayInstances |-> PortsOf[c]]
PlayRequires ==
  { [s \in ServiceNames |-> {}],
    [s \in ServiceNames |-> IF s = "a" THEN {"b"} ELSE {}],
    [s \in ServiceNames |-> IF s = "b" THEN {"a"} ELSE {}] }
DockerStates == { Absent, [state |-> "stopped", id |-> 1], [state |-> "running", id |-> 1] }

InitPlay ==
  /\ \E rq \in PlayRequires, im \in PlayImages :
       config = [requires |-> rq, instances |-> PlayInstances,
                 image |-> im, registries |-> Registries, name |-> TestEnvName,
                 wants_info |-> NoWants, ships |-> PlayShips, ports |-> PlayPorts]
  /\ docker \in [DOMAIN PlayInstances -> DockerStates]
  /\ phase = "config"
  /\ _requires = [s \in ServiceNames |-> {}]
  /\ _needed_for = [s \in ServiceNames |-> {}]
  /\ ordered_default = <<>>
  /\ ncalls = 0
  /\ call = NoCall
  /\ result = NoResult
  /\ IdlePlay
  /\ IdleExec

NextPlay ==
  \/ Construct \/ CmdStart \/ CmdStop
  \/ Ping0 \/ UpId \/ Lookup \/ Remove \/ Images \/ Login \/ Pull \/ Create
  \/ WaitCreate \/ StartCall \/ WaitRunning \/ Ping60 \/ Logs \/ EndStart
  \/ StopInspect \/ StopCall

SpecPlay == InitPlay /\ [][NextPlay]_vars

\* ------------------------------------------------------------ SpecExec
\* One maestro process from the command line to its exit code: execute()
\* builds the Conductor, dispatches the command by name, the Conductor
\* command wraps its play in _audit_play, and execute() turns what came out
\* into a return code.

\* The subcommands whose parser has the `expandable` parent (-a/--expand-all).
Expandable == {"stop", "kill", "restart"}
\* The subcommands drawn.
ExecCommands == {"start", "stop", "kill", "restart", "pull"}
\* The names given on the command line: containers, a service with an
\* instance, a service without one, a name that is not configured.
ExecThings == {"c1", "c2", "a", "c", UnknownName}
ExecRequires ==
  { [s \in ServiceNames |-> {}],
    [s \in ServiceNames |-> IF s = "b" THEN {"a"} ELSE {}],
    [s \in ServiceNames |-> IF s = "a" THEN {UnknownName} ELSE {}] }
\* The services of the description with `omit: true`.
OmitOptions == { {}, {"b"} }
ExecDockerStates == { Absent, [state |-> "running", id |-> 1] }
\* The positions of the command outside the loop body of a play.
ControlPcs == {"idle", "done", "raised", "abstract", "cmd_done", "cmd_raised", "exited"}
\* What the plays that are not in plays.py (Pull, Restart) can end with.
AbstractOutcomes == {"None", "OrchestrationException", "ReadTimeout",
                     "ConnectTimeout", "Exception", "KeyboardInterrupt"}

InitExec ==
  /\ \E rq \in ExecRequires, om \in OmitOptions :
       config = [requires |-> rq, instances |-> PlayInstances,
                 image |-> <<"a">>, registries |-> Registries, name |-> TestEnvName,
                 wants_info |-> NoWants, ships |-> PlayShips, ports |-> PlayPorts,
                 omit |-> om]
  /\ docker \in [DOMAIN PlayInstances -> ExecDockerStates]
  /\ phase = "config"
  /\ _requires = [s \in ServiceNames |-> {}]
  /\ _needed_for = [s \in ServiceNames |-> {}]
  /\ ordered_default = <<>>
  /\ ncalls = 0
  /\ call = NoCall
  /\ result = NoResult
  /\ IdlePlay
  /\ _wants_info = [s \in ServiceNames |-> {}]
  /\ env = [c \in Containers |-> {}]
  /\ strays = [c \in Containers |-> Absent]
  /\ \E command \in ExecCommands, things \in SUBSET ExecThings,
        ea \in BOOLEAN, wd \in BOOLEAN, ig \in BOOLEAN :
       /\ Cardinality(things) <= MaxThings
       /\ ea => command \in Expandable
       /\ options = [command |-> command, things |-> things, expand_all |-> ea,
                     with_dependencies |-> wd, ignore_dependencies |-> ig]
  /\ audit = <<>>
  /\ rc = NoReturn
  /\ stderr = <<>>
  /\ interrupted = FALSE

\* execute() : the Conductor could not be built; the exception is caught by
\* `except Exception`, the traceback is printed and 1 is returned.
ExecConstructFailed ==
  /\ phase = "failed" /\ pc = "idle" /\ rc = NoReturn
  /\ exc' = result.exc
  /\ stderr' = Append(stderr, "traceback")
  /\ rc' = 1
  /\ pc' = "exited"
  /\ UNCHANGED <<planvars, docker, _status, cmd, _containers, idx, task, log, results, active>>
  /\ UNCHANGED <<_wants_info, env, strays, options, audit, interrupted>>

\* execute() : stop, restart and kill need -a or a name.
bails_out_never(o) == FALSE
bails_out(o) ==
  o.command \in {"stop", "restart", "kill"} /\ ~o.expand_all /\ o.things = {}

\* execute() : what the command is called with: without names, every service
\* that is not omitted and with_dependencies from ignore_dependencies.
exec_things(o) ==
  IF o.things = {} THEN {s \in ServiceNames : s \notin config.omit} ELSE o.things
exec_with_dependencies(o) ==
  IF o.things = {} THEN ~o.ignore_dependencies ELSE o.with_dependencies

\* Conductor.start / pull order forward, Conductor.stop / restart backward.
forward_of(command) == command \in {"start", "pull"}
first_pc(command) ==
  IF command = "start" THEN "ping0"
  ELSE IF command = "stop" THEN "inspect" ELSE "abstract"

\* Conductor._audit_play, before play.run() : auditor.action(things, action).
audit_action(r, command) ==
  Append(audit, [call |-> "action", names |-> r.plan, verb |-> command,
                 message |-> "None"])

\* execute() up to play.run() : the bail-out, the defaults,
\* getattr(c, options.command)(**vars(options)) and, in the Conductor
\* command, the container list and the start of _audit_play.
ExecDispatch ==
  /\ phase = "ready" /\ pc = "idle" /\ rc = NoReturn
  /\ IF bails_out(options)
     THEN /\ stderr' = Append(stderr, "usage")
          /\ rc' = 1
          /\ pc' = "exited"
          /\ UNCHANGED <<cmd, _containers, idx, active, exc, audit, ordered_default>>
     ELSE
       LET things == exec_things(options)
           wd == exec_with_dependencies(options)
           r == command_containers(things, wd, forward_of(options.command),
                                   ordered_default)
       IN /\ cmd' = [op |-> options.command, things |-> things,
                     with_dependencies |-> wd,
                     ignore_dependencies |-> options.ignore_dependencies,
                     refresh_images |-> FALSE, concurrency |-> 0]
          /\ UNCHANGED <<rc, stderr>>
          /\ IF options.command = "kill"
             THEN /\ exc' = "AttributeError"
                  /\ pc' = "cmd_raised"
                  /\ UNCHANGED <<_containers, idx, active, audit, ordered_default>>
             ELSE /\ ordered_default' = IF wd THEN r.plan ELSE ordered_default
                  /\ IF r.exc # "None"
                     THEN /\ exc' = r.exc
                          /\ pc' = "cmd_raised"
                          /\ UNCHANGED <<_containers, idx, active, audit>>
                     ELSE /\ audit' = audit_action(r, options.command)
                          /\ BeginPlay(options.command, r, first_pc(options.command))
  /\ UNCHANGED <<config, phase, _requires, _needed_for, ncalls, call, result>>
  /\ UNCHANGED <<docker, _status, task, log, results>>
  /\ UNCHANGED <<_wants_info, env, strays, options, interrupted>>

\* A KeyboardInterrupt during Start.run : `except Exception` does not catch
\* it, it leaves the play.
InterruptStart ==
  /\ InStart /\ pc \notin ControlPcs /\ ~interrupted
  /\ interrupted' = TRUE
  /\ exc' = "KeyboardInterrupt"
  /\ pc' = "raised"
  /\ active' = leave(active, Cur)
  /\ UNCHANGED <<planvars, docker, _status, cmd, _containers, idx, task, log, results>>
  /\ UNCHANGED <<_wants_info, env, strays, options, audit, rc, stderr>>

\* A KeyboardInterrupt during Stop.run : inside one of the two try blocks the
\* bare `except:` catches it, commits "host down" or "fail!" and the loop
\* goes on; between them it leaves the play.
InterruptStop ==
  /\ InStop /\ pc \notin ControlPcs /\ ~interrupted
  /\ interrupted' = TRUE
  /\ \/ /\ results' = Append(results,
                        [name |-> Cur, ready0 |-> FALSE,
                         label |-> IF pc = "inspect" THEN "host down" ELSE "fail!"])
        /\ Advance(idx + 1, "inspect")
        /\ UNCHANGED exc
     \/ /\ exc' = "KeyboardInterrupt"
        /\ pc' = "raised"
        /\ active' = leave(active, Cur)
        /\ UNCHANGED <<idx, task, log, results>>
  /\ UNCHANGED <<planvars, docker, _status, cmd, _containers>>
  /\ UNCHANGED <<_wants_info, env, strays, options, audit, rc, stderr>>

\* play.run() of a play that is not in plays.py : it returns or raises.
AbstractRun ==
  /\ pc = "abstract"
  /\ \E e \in AbstractOutcomes :
       /\ exc' = e
       /\ pc' = IF e = "None" THEN "done" ELSE "raised"
       /\ interrupted' = (e = "KeyboardInterrupt")
  /\ active' = {}
  /\ UNCHANGED <<planvars, docker, _status, cmd, _containers, idx, task, log, results>>
  /\ UNCHANGED <<_wants_info, env, strays, options, audit, rc, stderr>>

\* Conductor._audit_play : which exceptions its except clauses catch, and the
\* message it hands to auditor.error.
is_Exception_never(e) == FALSE
is_Exception(e) == e # "KeyboardInterrupt"
audit_message(e) ==
  IF e \in {"ReadTimeout", "ConnectTimeout"} THEN "timeout reason" ELSE e

\* Conductor._audit_play, after play.run() : auditor.success after a return;
\* auditor.error and the same exception raised again after an Exception;
\* nothing for an exception that `except Exception` does not catch.
AuditEnd ==
  /\ pc \in {"done", "raised"} /\ cmd.op # "none" /\ rc = NoReturn
  /\ IF pc = "done"
     THEN /\ audit' = Append(audit, [call |-> "success", names |-> _containers,
                                     verb |-> cmd.op, message |-> "None"])
          /\ pc' = "cmd_done"
     ELSE /\ audit' = IF is_Exception(exc)
                      THEN Append(audit, [call |-> "error", names |-> _containers,
                                          verb |-> cmd.op,
                                          message |-> audit_message(exc)])
                      ELSE audit
          /\ pc' = "cmd_raised"
  /\ UNCHANGED <<planvars, docker, _status, cmd, _containers, idx, task, log, results, active, exc>>
  /\ UNCHANGED <<_wants_info, env, strays, options, rc, stderr, interrupted>>

\* execute() : `return 0` after the command, or one of the except clauses
\* (KeyboardInterrupt: pass; OrchestrationException: the message; Exception:
\* the traceback) and `return 1`.
ExecReturn ==
  /\ pc \in {"cmd_done", "cmd_raised"} /\ rc = NoReturn
  /\ rc' = IF pc = "cmd_done" THEN 0 ELSE 1
  /\ stderr' = IF pc = "cmd_done" \/ exc = "KeyboardInterrupt" THEN stderr
               ELSE IF exc = "OrchestrationException" THEN Append(stderr, "message")
               ELSE Append(stderr, "traceback")
  /\ pc' = "exited"
  /\ UNCHANGED <<planvars, docker, _status, cmd, _containers, idx, task, log, results, active, exc>>
  /\ UNCHANGED <<_wants_info, env, strays, options, audit, interrupted>>

NextExec ==
  \/ Construct \/ ExecConstructFailed \/ ExecDispatch
  \/ Ping0 \/ UpId \/ Lookup \/ Remove \/ Images \/ Login \/ Pull \/ Create
  \/ WaitCreate \/ StartCall \/ WaitRunning \/ Ping60 \/ Logs \/ EndStart
  \/ StopInspect \/ StopCall
  \/ InterruptStart \/ InterruptStop \/ AbstractRun \/ AuditEnd \/ ExecReturn

SpecExec == InitExec /\ [][NextExec]_vars

\* ------------------------------------------------------------ SpecStatus
\* One maestro process running Conductor.status : the fast Status play
\* (one listing per ship) or the FullStatus play (one inspection and one
\* probe per container).

\* The Status column of a daemon's container listing, as characters.
UpStatus == <<"U", "p", " ", "2", " ", "h", "o", "u", "r", "s">>
RestartingStatus == <<"R", "e", "s", "t", "a", "r", "t", "i", "n", "g", " ", "(", "1", ")">>
\* str.startswith
startswith(str, prefix) ==
  Len(str) >= Len(prefix) /\ SubSeq(str, 1, Len(prefix)) = prefix

\* backend.containers() : the daemon lists its running containers, a
\* restarting one included; the listing of a ship holds the containers placed
\* on it and any container of another ship's name that runs there.
Listed(d) == d.state \in {"running", "restarting"}
entry(d) == [Id |-> d.id,
             Status |-> IF d.state = "running" THEN UpStatus ELSE RestartingStatus]
containers(ship) ==
  LET own == {c \in Containers : config.ships[c] = ship /\ Listed(docker[c])}
      foreign == {c \in Containers : config.ships[c] # ship /\ Listed(strays[c])}
  IN [c \in own \cup foreign |-> IF c \in own THEN entry(docker[c]) ELSE entry(strays[c])]
\* dict.update
dict_update(d, e) ==
  [n \in DOMAIN d \cup DOMAIN e |-> IF n \in DOMAIN e THEN e[n] ELSE d[n]]
EmptyDict == [n \in {} |-> 0]

StatusThings == {"c1", "c2", "a", "b", UnknownName}
StatusRequires ==
  { [s \in ServiceNames |-> {}],
    [s \in ServiceNames |-> IF s = "b" THEN {"a"} ELSE {}] }
StatusDockerStates ==
  { Absent, [state |-> "stopped", id |-> 1], [state |-> "running", id |-> 1],
    [state |-> "restarting", id |-> 1] }
\* A container of the name of c1 (placed on s1) runs on s2, or one of the
\* name of c2 (placed on s2) runs on s1, or neither.
StrayOptions(names) ==
  { [c \in names |-> Absent],
    [c \in names |-> IF c = "c1" THEN [state |-> "running", id |-> 2] ELSE Absent],
    [c \in names |-> IF c = "c2" THEN [state |-> "running", id |-> 2] ELSE Absent] }
\* The `instances` sections drawn: those of InstanceMaps, and one in which
\* service a has an instance named a beside c1.
SameNameInstances ==
  [c \in {"a", "c1", "c2"} |-> IF c = "c2" THEN "b" ELSE "a"]
StatusInstanceMaps == InstanceMaps \cup {SameNameInstances}

InitStatus ==
  /\ \E rq \in StatusRequires, m \in StatusInstanceMaps :
       config = [requires |-> rq, instances |-> m,
                 image |-> <<"a">>, registries |-> Registries, name |-> TestEnvName,
                 wants_info |-> NoWants,
                 ships |-> [c \in DOMAIN m |-> IF c = "c2" THEN "s2" ELSE "s1"],
                 ports |-> [c \in DOMAIN m |-> IF c = "c1" THEN {"http"} ELSE {}]]
  /\ docker \in [Containers -> StatusDockerStates]
  /\ "c3" \in Containers => docker["c3"].state \in {"absent", "running"}
  /\ phase = "config"
  /\ _requires = [s \in ServiceNames |-> {}]
  /\ _needed_for = [s \in ServiceNames |-> {}]
  /\ ordered_default = <<>>
  /\ ncalls = 0
  /\ call = NoCall
  /\ result = NoResult
  /\ IdlePlay
  /\ _wants_info = [s \in ServiceNames |-> {}]
  /\ env = [c \in Containers |-> {}]
  /\ strays \in StrayOptions(Containers)
  /\ options = NoOptions
  /\ audit = <<>>
  /\ rc = NoReturn
  /\ stderr = <<>>
  /\ interrupted = FALSE

\* The ships of the containers of the play.
ships_of(cs) == {config.ships[cs[i]] : i \in 1..Len(cs)}

\* Conductor.status : the container list, then plays.FullStatus or
\* plays.Status over it.
CmdStatus ==
  /\ phase = "ready" /\ pc = "idle"
  /\ \E things \in SUBSET StatusThings, full \in BOOLEAN, wd \in BOOLEAN :
       /\ Cardinality(things) <= MaxThings
       /\ cmd' = [op |-> "status", things |-> things, with_dependencies |-> wd,
                  ignore_dependencies |-> FALSE, refresh_images |-> FALSE,
                  concurrency |-> 0, full |-> full]
       /\ LET r == command_containers(things, wd, TRUE, ordered_default)
          IN /\ ordered_default' = IF wd THEN r.plan ELSE ordered_default
             /\ exc' = r.exc
             /\ _containers' = IF r.exc = "None" THEN r.plan ELSE <<>>
             /\ idx' = 1
             /\ task' = [status |-> EmptyDict, down |-> {},
                         pending |-> IF r.exc = "None" /\ ~full
                                     THEN ships_of(r.plan) ELSE {}]
             /\ pc' = IF r.exc # "None" THEN "raised"
                      ELSE IF r.plan = <<>> THEN "done"
                      ELSE IF full THEN "full_inspect" ELSE "poll"
  /\ UNCHANGED <<config, phase, _requires, _needed_for, ncalls, call, result>>
  /\ UNCHANGED <<docker, _status, log, results, active>>
  /\ UNCHANGED auxvars

InStatus == cmd.op = "status"

\* Status.run, first loop: one backend.containers() per ship of the set of
\* ships, in the order the set yields them; the listing is merged into the
\* name-keyed dictionary, an exception is passed over.
StatusPoll ==
  /\ InStatus /\ pc = "poll"
  /\ \E ship \in task.pending :
       /\ log' = Append(log, <<"containers", ship>>)
       /\ \/ task' = [task EXCEPT !.pending = @ \ {ship}, !.down = @ \cup {ship}]
          \/ task' = [task EXCEPT !.pending = @ \ {ship},
                                  !.status = dict_update(@, containers(ship))]
       /\ pc' = IF task.pending = {ship} THEN "report" ELSE "poll"
  /\ Static /\ UNCHANGED <<docker, _status, idx, results, active>>

\* Status.run, second loop: the short id of the listed container of that
\* name if its Status starts with "Up", else "down".
reported_up(status, name) ==
  name \in DOMAIN status /\ startswith(status[name].Status, <<"U", "p">>)
StatusReport ==
  /\ InStatus /\ pc = "report"
  /\ results' = Append(results,
                  IF reported_up(task.status, Cur)
                  THEN [name |-> Cur, label |-> "id", id |-> task.status[Cur].Id]
                  ELSE [name |-> Cur, label |-> "down", id |-> 0])
  /\ idx' = idx + 1
  /\ pc' = IF idx = Len(_containers) THEN "done" ELSE "report"
  /\ Static /\ UNCHANGED <<docker, _status, task, log, active>>

\* The loop of FullStatus.run goes on with the next container.
full_next ==
  /\ idx' = idx + 1
  /\ pc' = IF idx = Len(_containers) THEN "done" ELSE "full_inspect"

\* FullStatus.run : container.status(); the probe is run when the status
\* shows the container running, otherwise "down" is committed; an exception
\* is committed as "host down".
probes_always(status) == TRUE
probes(status) == status # NoStatus /\ status.Running
FullInspect ==
  /\ InStatus /\ pc = "full_inspect"
  /\ log' = IF AsksDaemon(Cur) THEN Append(log, <<"inspect", Cur>>) ELSE log
  /\ \/ /\ AsksDaemon(Cur)
        /\ results' = Append(results, [name |-> Cur, label |-> "host down",
                                        id |-> 0, ping |-> "none"])
        /\ full_next
        /\ UNCHANGED _status
     \/ /\ _status' = [_status EXCEPT ![Cur] = status_cached(Cur)]
        /\ IF probes(status_cached(Cur))
           THEN pc' = "full_ping" /\ UNCHANGED <<idx, results>>
           ELSE /\ results' = Append(results, [name |-> Cur, label |-> "down",
                                               id |-> 0, ping |-> "none"])
                /\ full_next
  /\ Static /\ UNCHANGED <<docker, task, active>>

\* FullStatus.run : container.ping(1) : "up" if the probes pass, "down" if
\* they do not, "host down" if the probe raises.
up(ping) ==
  IF ping = "True" THEN "up" ELSE IF ping = "False" THEN "down" ELSE "host down"
FullPing ==
  /\ InStatus /\ pc = "full_ping"
  /\ log' = Append(log, <<"ping", Cur>>)
  /\ \E ping \in {"True", "False", "exception"} :
       results' = Append(results, [name |-> Cur, label |-> up(ping),
                                   id |-> _status[Cur].Id, ping |-> ping])
  /\ full_next
  /\ Static /\ UNCHANGED <<docker, _status, task, active>>

NextStatus ==
  \/ Construct \/ CmdStatus \/ StatusPoll \/ StatusReport \/ FullInspect \/ FullPing

SpecStatus == InitStatus /\ [][NextStatus]_vars

\* ------------------------------------------------------------ planner claims
\* Least fixpoint of following the edges of R from the set acc.
RECURSIVE ReachFrom(_, _)
ReachFrom(R, acc) ==
  LET nxt == acc \cup UNION {R[s] \cap ServiceNames : s \in acc}
  IN IF nxt = acc THEN acc ELSE ReachFrom(R, nxt)
\* The services s transitively requires, and those that transitively require s,
\* by the environment description.
RequiredBy(s) == ReachFrom(config.requires, config.requires[s] \cap ServiceNames)
DependentsOf(s) == ReachFrom(ConfigNeededFor, ConfigNeededFor[s])
OnCycle(s) == s \in RequiredBy(s)
Cyclic == \E s \in ServiceNames : OnCycle(s)
ServiceOf(c) == config.instances[c]

Planned == call.op = "_ordered_containers"
KnownThings == \A t \in call.things : IsThing(t)
Gathered == _gather_dependencies(_to_containers(call.things).val, call.forward).val
IsPermutationOf(seq, S) == Len(seq) = Cardinality(S) /\ Range(seq) = S

\* C1: in an acyclic environment the forward plan of any container set is a
\* permutation of the gathered set (each gathered container exactly once and
\* nothing else) in which every container of a transitively required service
\* comes before every container of the service that requires it.
C1_ForwardPlanIsOrderedPermutation ==
  (Planned /\ call.forward /\ KnownThings /\ ~Cyclic) =>
     /\ result.exc = "None"
     /\ IsPermutationOf(result.plan, Gathered)
     /\ \A i, j \in 1..Len(result.plan) :
          ServiceOf(result.plan[i]) \in RequiredBy(ServiceOf(result.plan[j])) => i < j

\* The services from which a cycle of `requires` can be reached following
\* requires (forward) or needed_for (reverse) edges.
ReachesCycle(s, forward) ==
  \E k \in ServiceNames :
     /\ OnCycle(k)
     /\ k \in ({s} \cup (IF forward THEN RequiredBy(s) ELSE DependentsOf(s)))
CallReachesCycle ==
  /\ Planned /\ KnownThings
  /\ \E c \in (IF _to_containers(call.things).val = {} THEN Containers
               ELSE _to_containers(call.things).val) :
        ReachesCycle(ServiceOf(c), call.forward)
CycleContainers == UNION {containers_of(s) : s \in {k \in ServiceNames : OnCycle(k)}}

\* C2: in an environment whose requires relation has a cycle (a service that
\* requires itself included), planning a container set that reaches the cycle
\* fails with DependencyException, and the message names a container of the
\* cycle; no other error stands in for it.
C2_CyclePlanRaisesDependencyException ==
  /\ (Cyclic /\ ~HasUnknownDependency /\ phase = "failed")
        => result.exc = "DependencyException"
  /\ CallReachesCycle =>
        /\ result.exc = "DependencyException"
        /\ Range(result.names) \cap CycleContainers # {}

\* ------------------------------------------------------------ play claims
StartTaskPcs == {"ping0", "up_id", "lookup", "remove", "images", "login", "pull",
                 "create", "wait_create", "start", "wait_running", "ping60",
                 "logs", "end"}
StopTaskPcs == {"inspect", "stop"}
InTask == pc \in StartTaskPcs \cup StopTaskPcs
\* The play has committed a result for container c / has begun its task.
Done(c) == \E i \in 1..Len(results) : results[i].name = c
Begun(c) == Done(c) \/ (InTask /\ Cur = c)
ActedOn == Range(_containers)
Issued(x) == \E k \in 1..Len(log) : log[k] = x
First(x) == CHOOSE k \in 1..Len(log) : log[k] = x /\ \A j \in 1..(k - 1) : log[j] # x
Before(x, y) == (Issued(x) /\ Issued(y)) => First(x) < First(y)
Count(x) == Cardinality({k \in 1..Len(log) : log[k] = x})

\* C3: in a start command without ignore_dependencies, with or without
\* with_dependencies, for acted-on containers a and b where b's service
\* transitively requires a's service, a's start task has completed before b's
\* start task begins.
C3_StartDependenciesFirst ==
  (InStart /\ ~cmd.ignore_dependencies) =>
     \A a \in ActedOn, b \in ActedOn :
        (ServiceOf(a) \in RequiredBy(ServiceOf(b)) /\ Begun(b)) => Done(a)

\* C4: in a stop command without ignore_dependencies the containers are
\* processed in reverse dependency order: for acted-on containers a and b where
\* b's service transitively requires a's service, b is stopped before a.
C4_StopDependentsFirst ==
  (InStop /\ ~cmd.ignore_dependencies) =>
     \A a \in ActedOn, b \in ActedOn :
        (ServiceOf(a) \in RequiredBy(ServiceOf(b)) /\ Begun(a)) => Done(b)

FailedStartLabels == {"failed to start container!", "service did not start!"}
\* C6: Start is fail-fast: when the start task of a container fails (a daemon
\* call raises, or the readiness probes do not pass, whatever the logs hold)
\* Start.run raises OrchestrationException and no later container of the plan
\* is acted on: the failed container is the last one processed.
C6_StartFailFast ==
  InStart =>
     \A i \in 1..Len(results) :
        results[i].label \in FailedStartLabels =>
           /\ i = Len(results)
           /\ pc = "raised" /\ exc = "OrchestrationException"

FailedStopLabels == {"host down", "fail!"}
\* C7 as stated: Stop is fail-fast: when inspecting or stopping a container
\* fails, no later container of the stop plan is processed and the play ends
\* in failure.
C7_StopFailFast ==
  InStop =>
     \A i \in 1..Len(results) :
        results[i].label \in FailedStopLabels =>
           /\ i = Len(results)
           /\ pc = "raised"
\* C7 amended: Stop is fail-soft: a failure to inspect or stop a container is
\* committed for that container only; the loop goes on with the next container
\* (one result per container processed, in plan order), the play that has
\* begun never raises, and when run() returns every container of the plan has
\* been processed.
C7_StopFailSoft ==
  (InStop /\ _containers # <<>>) =>
     /\ pc # "raised" /\ exc = "None"
     /\ \A i \in 1..Len(results) : results[i].name = _containers[i]
     /\ pc \in StopTaskPcs => Len(results) = idx - 1
     /\ pc = "done" => Len(results) = Len(_containers)
\* A container is stopped after an earlier one of the plan failed.
C7_Witness ==
  /\ InStop /\ pc = "done"
  /\ \E i, j \in 1..Len(results) :
       i < j /\ results[i].label \in FailedStopLabels /\ results[j].label = "stopped"

C9_StartCallOrder ==
  (InStart /\ pc \in StartTaskPcs /\ ~task.ready0) =>
     /\ Before("remove", "images") /\ Before("remove", "login")
     /\ Before("remove", "pull") /\ Before("remove", "create")
     /\ Before("login", "pull") /\ Before("pull", "create")
     /\ Before("create", "start")
     /\ \A x \in Mutating : Count(x) <= 1
     /\ Issued("remove") => task.existed
     /\ Issued("create") => (Issued("remove") <=> task.existed)
     /\ Issued("start") => (Issued("create") /\ task.created_seen)
     /\ Count("ping") <= 2
     /\ Count("ping") = 2 => (Issued("start") /\ task.running_seen
                              /\ log[Len(log)] \in {"ping", "logs"})
     /\ (pc = "end" /\ Issued("start") /\ ~task.running_seen) =>
           (task.error = "exception" /\ Count("ping") = 1)
\* The whole sequence was issued for a container that existed.
C9_Witness ==
  /\ InStart /\ pc = "end" /\ task.result = "True"
  /\ log = <<"ping", "remove", "images", "login", "pull", "create", "start", "ping">>

\* The registry segment of an image name: what stands before its first '/'.
RegistrySegment(image) ==
  IF find(image, "/") > 0 THEN SubSeq(image, 1, find(image, "/")) ELSE <<>>
PastImageStep == pc \in {"create", "wait_create", "start", "wait_running", "ping60", "logs"}
                 \/ Issued("create")
\* C10: in a start task that reaches the image step the image is pulled iff
\* refresh_images is set or the ship lists no local image with the requested
\* tag; when it is pulled and the registry segment of the image is a configured
\* registry, login comes before the pull, and a failed login fails the task
\* without a pull.
C10_PullIffNeeded ==
  (InStart /\ pc \in StartTaskPcs) =>
     /\ Issued("pull") => (cmd.refresh_images \/ ~task.listed)
     /\ PastImageStep => ((cmd.refresh_images \/ ~task.listed) => Issued("pull"))
     /\ Issued("login") => RegistrySegment(config.image) \in config.registries
     /\ (Issued("pull") /\ RegistrySegment(config.image) \in config.registries) =>
           (Issued("login") /\ First("login") < First("pull"))
     /\ (pc = "end" /\ log # <<>> /\ log[Len(log)] = "login") =>
           (task.error = "exception" /\ ~Issued("pull"))
\* An image of a configured registry that is not listed locally was pulled
\* after a login, without refresh_images.
C10_Witness ==
  /\ InStart /\ pc = "end" /\ task.result = "True" /\ ~cmd.refresh_images
  /\ Issued("login") /\ Issued("pull")

\* What a step of the Stop play commits, if it commits something.
Commits(label) ==
  /\ Len(results') = Len(results) + 1
  /\ results'[Len(results')].label = label
RunningAtDaemon(c) == docker[c].state = "running"
Expansion == _to_containers(call.things).val
StartSet == IF Expansion = {} THEN Containers ELSE Expansion
\* The services reached from s through requires edges in the call's direction.
ReachedFrom(s, forward) == IF forward THEN RequiredBy(s) ELSE DependentsOf(s)
\* A lists B in wants_info and not in its transitive requires.
WantsOnly(A, B) ==
  /\ A # B /\ B \in config.wants_info[A] /\ B \notin RequiredBy(A)
Unrelated(A, B) == B \notin RequiredBy(A) /\ A \notin RequiredBy(B)
FromContainersOf(A) == Expansion # {} /\ Expansion \subseteq containers_of(A)
Free(s) == config.requires[s] = {} /\ ConfigNeededFor[s] = {}
PlanPos(c) == CHOOSE i \in 1..Len(result.plan) : result.plan[i] = c

\* C16 as stated: if A lists B only in wants_info (B is not in A's transitive
\* requires), gathering from A's containers in either direction does not add
\* B's containers.
C16_WantsOnlyNeverGathered ==
  (Planned /\ KnownThings /\ result.exc = "None") =>
     \A A \in ServiceNames, B \in ServiceNames :
        (WantsOnly(A, B) /\ FromContainersOf(A)) => Gathered \cap containers_of(B) = {}
\* C16 amended: wants_info edges never influence planning: the gathered set is
\* the start set plus the containers of the services reached through requires
\* edges in the call's direction, so when A lists B in wants_info and no
\* requires path joins A and B in either direction, gathering from A's
\* containers adds no container of B; and the plan of a first call places the
\* containers of two services that have no requires edge at all in name order,
\* whatever their wants_info lists.
C16_WantsInfoNoInfluence ==
  (Planned /\ KnownThings /\ result.exc = "None") =>
     /\ Gathered = StartSet \cup UNION {containers_of(s) :
                      s \in UNION {ReachedFrom(ServiceOf(c), call.forward) : c \in StartSet}}
     /\ \A A \in ServiceNames, B \in ServiceNames :
          (WantsOnly(A, B) /\ Unrelated(A, B) /\ FromContainersOf(A))
             => Gathered \cap containers_of(B) = {}
     /\ ncalls = 1 =>
          \A x \in Range(result.plan), y \in Range(result.plan) :
             (Free(ServiceOf(x)) /\ Free(ServiceOf(y)) /\ Lt(x, y))
                => PlanPos(x) < PlanPos(y)
\* A names b in wants_info only, the two are joined by no requires path, a
\* plan from A's containers left B's out, and a plan of everything placed a
\* container of A before a later-named container of B.
C16_Witness ==
  /\ Planned /\ KnownThings /\ result.exc = "None" /\ ncalls = 1
  /\ \E A \in ServiceNames, B \in ServiceNames :
       /\ WantsOnly(A, B) /\ Unrelated(A, B) /\ FromContainersOf(A)
       /\ containers_of(B) # {}
       /\ Gathered \cap containers_of(B) = {}

\* ------------------------------------------------------------ link variable claims
HostVar(s, c) ==
  [key |-> <<_to_env_var_name(s), _to_env_var_name(c), "HOST">>,
   value |-> <<"ip", config.ships[c]>>]
PortVar(s, c, p) ==
  [key |-> <<_to_env_var_name(s), _to_env_var_name(c), _to_env_var_name(p), "PORT">>,
   value |-> <<"external", c, p>>]
InternalPortVar(s, c, p) ==
  [key |-> <<_to_env_var_name(s), _to_env_var_name(c), _to_env_var_name(p),
             "INTERNAL_PORT">>,
   value |-> <<"exposed", c, p>>]
InstancesVar(s) ==
  [key |-> <<_to_env_var_name(s), "INSTANCES">>, value |-> <<"names", containers_of(s)>>]
\* The link variables of a service, and those of its internal ports.
LinkVars(s) ==
  {HostVar(s, c) : c \in containers_of(s)}
  \cup UNION {{PortVar(s, c, p) : p \in config.ports[c]} : c \in containers_of(s)}
  \cup {InstancesVar(s)}
InternalVars(s) ==
  UNION {{InternalPortVar(s, c, p) : p \in config.ports[c]} : c \in containers_of(s)}
LinkedServices(c) ==
  {ServiceOf(c)} \cup RequiredBy(ServiceOf(c)) \cup config.wants_info[ServiceOf(c)]

\* C20: after Conductor construction the env of every container c holds
\* (a) all link variables of c's own service, INTERNAL_PORT variables included,
\* (b) all link variables of every service in the transitive requires closure
\* of c's service, (c) all link variables of every service in its wants_info;
\* and it holds no link variable of a service outside these three groups.
C20_LinkVariablesPropagated ==
  phase = "ready" =>
     \A c \in Containers :
        /\ LinkVars(ServiceOf(c)) \cup InternalVars(ServiceOf(c)) \subseteq env[c]
        /\ \A s \in RequiredBy(ServiceOf(c)) : LinkVars(s) \subseteq env[c]
        /\ \A s \in config.wants_info[ServiceOf(c)] : LinkVars(s) \subseteq env[c]
        /\ \A e \in env[c] :
              \E s \in LinkedServices(c) : e \in LinkVars(s) \cup InternalVars(s)
        /\ \A e \in env[c], f \in env[c] : e.key = f.key => e = f
\* A built Conductor where one container's service requires another only
\* through a third one, and one container's service names in wants_info a
\* service it does not require; both have instances with ports.
C20_Witness ==
  /\ phase = "ready"
  /\ \E c \in Containers :
       \E s \in RequiredBy(ServiceOf(c)) \ config.requires[ServiceOf(c)] :
          \E k \in containers_of(s) : config.ports[k] # {} /\ HostVar(s, k) \in env[c]
  /\ \E c \in Containers :
       \E s \in config.wants_info[ServiceOf(c)] \ RequiredBy(ServiceOf(c)) :
          \E k \in containers_of(s) : HostVar(s, k) \in env[c]
  /\ \E c \in Containers : InternalVars(ServiceOf(c)) # {}

\* ------------------------------------------------------------ execute claims
\* The play of the command is inside _audit_play, between auditor.action and
\* the outcome call.
InPlay == cmd.op \notin {"none", "kill"} /\ pc \notin {"idle", "cmd_done", "cmd_raised", "exited"}
AuditCall(kind, message) ==
  [call |-> kind, names |-> _containers, verb |-> cmd.op, message |-> message]
TimeoutKinds == {"ReadTimeout", "ConnectTimeout"}

\* C12: auditor.action(names, verb) is the only call made when play.run
\* starts and nothing is added while it runs; after a normal return
\* auditor.success(names, verb) is added and no error; after an exception
\* auditor.error(names, verb, message) is added, no success, and the same
\* exception goes on to the caller.  (A KeyboardInterrupt is not an
\* Exception: no call is added and the interrupt goes on to the caller.)
C12_AuditWrap ==
  [][ /\ (~InPlay /\ InPlay') =>
            audit' = << [call |-> "action", names |-> _containers',
                         verb |-> cmd'.op, message |-> "None"] >>
      /\ (InPlay /\ InPlay') => audit' = audit
      /\ (InPlay /\ ~InPlay' /\ pc = "done") =>
            /\ audit' = Append(audit, AuditCall("success", "None"))
            /\ pc' = "cmd_done"
      /\ (InPlay /\ ~InPlay' /\ pc = "raised" /\ exc # "KeyboardInterrupt") =>
            /\ \E m \in {exc, "timeout reason"} :
                 /\ audit' = Append(audit, AuditCall("error", m))
                 /\ m = exc <=> exc \notin TimeoutKinds
            /\ exc' = exc /\ pc' = "cmd_raised"
      /\ (InPlay /\ ~InPlay' /\ pc = "raised" /\ exc = "KeyboardInterrupt") =>
            /\ audit' = audit
            /\ exc' = exc /\ pc' = "cmd_raised"
    ]_vars
\* A start command whose play failed: action, then error, and the
\* OrchestrationException of the play reached execute().
C12_Witness ==
  /\ pc = "exited" /\ cmd.op = "start" /\ exc = "OrchestrationException"
  /\ Len(audit) = 2 /\ audit[1].call = "action" /\ audit[2].call = "error"
  /\ audit[2].names = _containers /\ _containers # <<>>

\* The command line names a destructive command, no thing and no -a.
BareDestructive ==
  /\ options.command \in {"stop", "restart", "kill"}
  /\ options.things = {} /\ ~options.expand_all
\* C13: for stop, restart or kill with no thing named and expand_all not set,
\* execute() invokes no Conductor command (no container list, no auditor
\* call, no play step, no daemon call, no container changes state) and, once
\* it has returned, it has returned 1 after writing an error: the "No
\* services or containers specified" message when the Conductor was built.
C13_DestructiveBailOut ==
  /\ [](BareDestructive =>
          /\ cmd = NoCmd /\ _containers = <<>> /\ audit = <<>>
          /\ results = <<>> /\ log = <<>> /\ active = {}
          /\ pc \in {"idle", "exited"}
          /\ pc = "exited" =>
               /\ rc = 1 /\ stderr # <<>>
               /\ phase = "ready" => stderr = <<"usage">>)
  /\ [][BareDestructive => docker' = docker /\ _status' = _status]_vars
\* `maestro stop` on a description whose containers are running: execute()
\* returned 1 and the containers still run.
C13_Witness ==
  /\ BareDestructive /\ options.command = "stop" /\ phase = "ready"
  /\ pc = "exited" /\ rc = 1 /\ stderr = <<"usage">>
  /\ \A c \in DOMAIN docker : docker[c].state = "running"

\* The Conductor command was invoked and returned without raising.
CommandReturned == phase = "ready" /\ cmd.op # "none" /\ exc = "None"
\* C14: once execute() has returned, it returned 0 or 1; 0 iff the selected
\* Conductor command ran and returned without raising; and 1 whenever a
\* keyboard interrupt was raised during the command.
C14_ExitCode ==
  rc # NoReturn =>
    /\ rc \in {0, 1}
    /\ rc = 0 <=> CommandReturned
    /\ interrupted => rc = 1

\* The Conductor command has built its container list (no name was unknown)
\* and handed it to a play.
Acting == cmd.op \in {"start", "stop", "pull", "restart"} /\ audit # <<>>
\* The containers named by the things of the command, directly or through
\* their service.
CmdExpansion == {c \in Containers : c \in cmd.things \/ ServiceOf(c) \in cmd.things}
\* The gather closure of the expansion in the direction of the command:
\* the containers it starts from (every container when the expansion is
\* empty) and the containers of every service reached from theirs.
CmdClosure ==
  LET S == IF CmdExpansion = {} THEN Containers ELSE CmdExpansion
  IN S \cup {c \in Containers :
               \E d \in S : ServiceOf(c) \in ReachedFrom(ServiceOf(d), forward_of(cmd.op))}
FastStatus == InStatus /\ ~cmd.full
\* The listing of ship was merged: it was requested and the daemon answered.
Answered(ship) == ship \in ships_of(_containers) /\ ship \notin task.down /\ ship \notin task.pending
\* A container of the name of c runs on another ship whose listing was merged.
Collides(c) ==
  Listed(strays[c]) /\ \E ship \in ShipNames : ship # config.ships[c] /\ Answered(ship)

\* C17 (as the code has it): in the fast Status play the container list of
\* each distinct ship of the requested containers is requested exactly once
\* and no other ship is asked; every requested container gets one report, in
\* list order, which is the short id iff the dictionary of listed containers
\* holds that name with a Status beginning with "Up" and is "down" otherwise;
\* where no other answering ship lists a container of that name this means:
\* the id of the container iff its own ship answered and lists it as Up.  An
\* unreachable ship does not fail the play; its containers are reported
\* "down" ("host down" is never reported) and those of the other ships are
\* reported as said.
C17_FastStatus ==
  FastStatus =>
    /\ (\A t \in cmd.things : IsThing(t)) => exc = "None" /\ pc # "raised"
    /\ \A ship \in ShipNames : Count(<<"containers", ship>>) <= 1
    /\ pc \in {"report", "done"} =>
         \A ship \in ShipNames :
           Count(<<"containers", ship>>) = IF ship \in ships_of(_containers) THEN 1 ELSE 0
    /\ pc = "done" => Len(results) = Len(_containers)
    /\ \A i \in 1..Len(results) :
         LET c == _containers[i]
             r == results[i]
         IN /\ r.name = c
            /\ r.label \in {"id", "down"}
            /\ r.label = "id" <=>
                 (c \in DOMAIN task.status /\ SubSeq(task.status[c].Status, 1, 2) = <<"U", "p">>)
            /\ ~Collides(c) =>
                 /\ r.label = "id" <=>
                      (Answered(config.ships[c]) /\ docker[c].state = "running")
                 /\ r.label = "id" => r.id = docker[c].id
\* C17 as stated: every requested container of an unreachable ship is
\* reported "host down".
C17_UnreachableShipHostDown ==
  (FastStatus /\ pc = "done") =>
    \A i \in 1..Len(results) :
      config.ships[results[i].name] \in task.down => results[i].label = "host down"
\* One ship did not answer and the other did: a container of the first is
\* reported "down", a running container of the second with its id.
C17_Witness ==
  /\ FastStatus /\ pc = "done" /\ task.down # {}
  /\ \E i, j \in 1..Len(results) :
       /\ config.ships[results[i].name] \in task.down /\ results[i].label = "down"
       /\ docker[results[i].name].state = "running"
       /\ config.ships[results[j].name] \notin task.down /\ results[j].label = "id"

FullStatusPlay == InStatus /\ cmd.full
RunningState(c) == docker[c].state \in {"running", "restarting"}
\* C18: in the FullStatus play the containers of the list are visited once
\* each, in list order (one inspection, at most one probe, one report, and
\* nothing for a container that is not in the list); a container is reported
\* "up" only if the daemon has it running and its probe was run and passed; no
\* probe is run for a container that is absent or not running, which is
\* reported "down" (or "host down" when the inspection itself raised); and a
\* "host down" report never ends the play: every container of the list has
\* its report when the play is done.
C18_FullStatus ==
  FullStatusPlay =>
    /\ Len(results) <= Len(_containers)
    /\ pc = "done" => Len(results) = Len(_containers)
    /\ pc # "raised" => exc = "None"
    /\ \A c \in Containers :
         /\ Count(<<"inspect", c>>) <= 1 /\ Count(<<"ping", c>>) <= 1
         /\ c \notin Range(_containers) =>
              Count(<<"inspect", c>>) = 0 /\ Count(<<"ping", c>>) = 0
    /\ \A i \in 1..Len(results) :
         LET c == _containers[i]
             r == results[i]
         IN /\ r.name = c
            /\ \A j \in 1..Len(results) : results[j].name = c => j = i
            /\ r.label \in {"up", "down", "host down"}
            /\ Count(<<"inspect", c>>) = 1
            /\ r.label = "up" =>
                 RunningState(c) /\ Count(<<"ping", c>>) = 1 /\ r.ping = "True"
            /\ ~RunningState(c) =>
                 /\ Count(<<"ping", c>>) = 0
                 /\ r.label \in {"down", "host down"}
                 /\ r.label = "host down" => r.ping = "none"
            /\ r.label = "host down" => r.ping \in {"none", "exception"}
\* A daemon call raised for the first container, which is "host down"; the
\* play went on, found the second one running and probed it "up", and found
\* nothing to probe in a third that is not running.
C18_Witness ==
  /\ FullStatusPlay /\ pc = "done"
  /\ \E i, j \in 1..Len(results) :
       /\ i < j /\ results[i].label = "host down" /\ results[j].label = "up"
  /\ \E k \in 1..Len(results) :
       results[k].label = "down" /\ ~RunningState(results[k].name)

\* Conductor.status without dependencies plays over _to_containers(things).
Expanded == InStatus /\ ~cmd.with_dependencies
\* C19 as stated: the list holds every container named directly and every
\* container of every named service.
C19_EveryContainerOfNamedServices ==
  (Expanded /\ exc = "None") =>
    Range(_containers) =
      {c \in Containers : c \in cmd.things \/ ServiceOf(c) \in cmd.things}
\* C19 (as the code has it): _to_containers of a mixed list of names returns
\* the containers named directly and the containers of the services named by
\* a name that is not a container's, and nothing else, each once, in
\* ascending order of name; if a name is neither a container nor a service it
\* raises OrchestrationException and returns nothing (no play runs), and it
\* raises in no other case.
C19_ToContainers ==
  Expanded =>
    /\ exc = "OrchestrationException" <=>
         \E t \in cmd.things : t \notin Containers /\ t \notin ServiceNames
    /\ exc \in {"None", "OrchestrationException"}
    /\ exc = "OrchestrationException" =>
         _containers = <<>> /\ results = <<>> /\ log = <<>> /\ pc = "raised"
    /\ exc = "None" =>
         /\ Range(_containers) =
              {c \in Containers :
                 \/ c \in cmd.things
                 \/ ServiceOf(c) \in cmd.things /\ ServiceOf(c) \notin Containers}
         /\ Len(_containers) = Cardinality(Range(_containers))
         /\ \A i, j \in 1..Len(_containers) :
              i < j => Lt(_containers[i], _containers[j])
\* A container named directly and through its service, with another
\* container of that service: the list has each once, in name order.
C19_Witness ==
  /\ Expanded /\ exc = "None"
  /\ \E c \in Containers, s \in ServiceNames :
       /\ cmd.things = {c, s} /\ ServiceOf(c) = s
       /\ Cardinality({d \in Containers : ServiceOf(d) = s}) = 2
  /\ Len(_containers) = 2

\* ------------------------------------------------------------ SpecEntities
\* The functions of entities.py that turn the values of a description into
\* the fields of a Container, applied to values drawn from bounded sets.
\* Strings are tuples of characters; a value of the description carries its
\* Python type: an int is [type |-> "int", value |-> <its decimal digits>], a
\* string [type |-> "str", value |-> s], a list [type |-> "list", items |->
\* <<v, ...>>], None [type |-> "NoneType"], and the mapping of a port has the
\* fields exposed and external.

LowerCase == <<"a", "b", "c", "d", "e", "f", "g", "h", "i", "j", "k", "l", "m",
               "n", "o", "p", "q", "r", "s", "t", "u", "v", "w", "x", "y", "z">>
UpperCase == <<"A", "B", "C", "D", "E", "F", "G", "H", "I", "J", "K", "L", "M",
               "N", "O", "P", "Q", "R", "S", "T", "U", "V", "W", "X", "Y", "Z">>
Digits == <<"0", "1", "2", "3", "4", "5", "6", "7", "8", "9">>

\* str.upper and str.lower, character by character.
upper(str) ==
  [i \in 1..Len(str) |->
     IF \E k \in 1..Len(LowerCase) : LowerCase[k] = str[i]
     THEN UpperCase[CHOOSE k \in 1..Len(LowerCase) : LowerCase[k] = str[i]]
     ELSE str[i]]
lower(str) ==
  [i \in 1..Len(str) |->
     IF \E k \in 1..Len(UpperCase) : UpperCase[k] = str[i]
     THEN LowerCase[CHOOSE k \in 1..Len(UpperCase) : UpperCase[k] = str[i]]
     ELSE str[i]]

\* str.split(sep) for a separator of one character.
RECURSIVE split(_, _)
split(str, sep) ==
  LET k == find(str, sep)
  IN IF k = -1 THEN <<str>>
     ELSE <<SubSeq(str, 1, k)>> \o split(SubSeq(str, k + 2, Len(str)), sep)

\* int(str) of a string of decimal digits, and '{:d}'.format(n) / str(n) of a
\* natural number.  int raises ValueError for every other string drawn.
is_int(str) == str # <<>> /\ \A i \in 1..Len(str) : str[i] \in Range(Digits)
RECURSIVE int(_)
int(str) ==
  IF str = <<>> THEN 0
  ELSE 10 * int(SubSeq(str, 1, Len(str) - 1))
       + (CHOOSE d \in 0..9 : Digits[d + 1] = str[Len(str)])
RECURSIVE format_d(_)
format_d(n) ==
  IF n < 10 THEN <<Digits[n + 1]>> ELSE format_d(n \div 10) \o <<Digits[(n % 10) + 1]>>

\* What a function returns or raises.
Returns(v) == [exc |-> "None", value |-> v]
Raises(e) == [exc |-> e, value |-> <<>>]

Tcp == <<"t", "c", "p">>
Udp == <<"u", "d", "p">>
AllInterfaces == <<"0", ".", "0", ".", "0", ".", "0">>

\* str(port) of an int (its decimal digits) or of a str (itself).
py_str(port) == port.value

\* Container._parse_ports, validate_proto : one part is a number and gets
\* '/tcp'; two parts are a number and tcp or udp, and the port is returned as
\* it was given; int() of the only part is outside the try block.
validate_proto(port) ==
  LET parts == split(py_str(port), "/")
  IN IF Len(parts) = 1
     THEN IF is_int(parts[1]) THEN Returns(format_d(int(parts[1])) \o <<"/">> \o Tcp)
          ELSE Raises("ValueError")
     ELSE IF Len(parts) = 2 /\ is_int(parts[1]) /\ parts[2] \in {Tcp, Udp}
          THEN Returns(port.value)
          ELSE Raises("InvalidPortSpecException")

\* s[-4:]
last4(str) == SubSeq(str, IF Len(str) > 4 THEN Len(str) - 3 ELSE 1, Len(str))
PyStr(s) == [type |-> "str", value |-> s]
PyInt(n) == [type |-> "int", value |-> format_d(n)]
NoValue == [type |-> "absent"]

\* map(validate_proto, sides) : the first side that raises ends it.
RECURSIVE map_validate_proto(_)
map_validate_proto(sides) ==
  IF sides = <<>> THEN Returns(<<>>)
  ELSE LET head == validate_proto(PyStr(Head(sides)))
       IN IF head.exc # "None" THEN head
          ELSE LET tail == map_validate_proto(Tail(sides))
               IN IF tail.exc # "None" THEN tail
                  ELSE Returns(<<head.value>> \o tail.value)

\* Container._parse_ports, the body of its loop for one port specification.
parse_port(spec) ==
  IF spec.type = "int"
  THEN LET v == validate_proto(spec)
       IN IF v.exc # "None" THEN v
          ELSE Returns([exposed |-> v.value, external |-> <<AllInterfaces, v.value>>])
  ELSE IF spec.type = "str"
  THEN LET m == map_validate_proto(split(spec.value, ":"))
       IN IF m.exc # "None" THEN m
          ELSE LET parts == IF Len(m.value) = 1 THEN m.value \o m.value ELSE m.value
               IN IF Len(parts) > 2 THEN Raises("InvalidPortSpecException")
                  ELSE IF last4(parts[1]) # last4(parts[2])
                       THEN Raises("InvalidPortSpecException")
                       ELSE Returns([exposed |-> parts[1],
                                     external |-> <<AllInterfaces, parts[2]>>])
  ELSE IF spec.type = "dict" /\ spec.exposed.type # "absent" /\ spec.external.type # "absent"
  THEN LET exposed == validate_proto(spec.exposed)
           external == IF spec.external.type # "list"
                       THEN <<PyStr(AllInterfaces), spec.external>>
                       ELSE spec.external.items
       IN IF exposed.exc # "None" THEN exposed
          ELSE IF Len(external) < 2 THEN Raises("IndexError")
          ELSE LET port == validate_proto(external[2])
               IN IF port.exc # "None" THEN port
                  ELSE Returns([exposed |-> exposed.value,
                                external |-> <<external[1].value, port.value>>])
  ELSE Raises("InvalidPortSpecException")

\* Container._parse_ports : `ports` is the mapping in iteration order, a
\* tuple of [name, spec]; the result has the same names.
RECURSIVE _parse_ports(_)
_parse_ports(ports) ==
  IF ports = <<>> THEN Returns(<<>>)
  ELSE LET head == parse_port(Head(ports).spec)
       IN IF head.exc # "None" THEN head
          ELSE LET tail == _parse_ports(Tail(ports))
               IN IF tail.exc # "None" THEN tail
                  ELSE Returns(<<[name |-> Head(ports).name, spec |-> head.value]>>
                               \o tail.value)

\* The port specifications drawn.  A side is a number, or what stands for
\* one, with or without a protocol; a string has one, two or three sides.
Http == <<"h", "t", "t", "p">>
PortNumbers == {<<"8", "0">>, <<"5", "3">>, <<"0", "8", "0">>, <<"x">>, <<>>}
Protocols == {Tcp, Udp, <<"s", "c", "t", "p">>}
Sides ==
  PortNumbers \cup {n \o <<"/">> \o p : n \in PortNumbers, p \in Protocols}
  \cup {<<"8", "0", "/">> \o Tcp \o <<"/">> \o Udp}
ThreeSides == {<<"8", "0", ":", "8", "0", ":", "8", "0">>,
               <<"8", "0", ":", "x", ":", "8", "0">>}
PortStrings ==
  Sides \cup {a \o <<":">> \o b : a \in Sides, b \in Sides} \cup ThreeSides
PortParts == {PyInt(80), PyStr(<<"5", "3", "/">> \o Udp), PyStr(<<"x">>),
              PyStr(<<"8", "0", "/", "x">>)}
PortDicts ==
  {[type |-> "dict", exposed |-> e, external |-> x] :
     e \in PortParts \cup {NoValue},
     x \in PortParts \cup {NoValue}
            \cup {[type |-> "list", items |-> <<PyStr(<<"1", "0", ".", "0", ".", "0", ".", "1">>), v>>] :
                    v \in PortParts}}
PortSpecs ==
  {PyInt(80), PyInt(8080)} \cup {PyStr(s) : s \in PortStrings} \cup PortDicts
  \cup {[type |-> "list", items |-> <<PyInt(80)>>], [type |-> "NoneType"],
        [type |-> "bool"], [type |-> "float"]}

\* A dict in iteration order: a tuple of [key, value] with distinct keys.
\* d[key] = value
setitem(d, key, value) ==
  IF \E i \in 1..Len(d) : d[i].key = key
  THEN [i \in 1..Len(d) |-> IF d[i].key = key THEN [key |-> key, value |-> value]
                                              ELSE d[i]]
  ELSE Append(d, [key |-> key, value |-> value])
\* sep.join(strings)
RECURSIVE join(_, _)
join(sep, strings) ==
  IF strings = <<>> THEN <<>>
  ELSE IF Len(strings) = 1 THEN strings[1]
  ELSE strings[1] \o sep \o join(sep, Tail(strings))

\* re.sub(r'[^\w]', '_', n).upper() : \w is a letter, a digit or '_'.
is_word(ch) ==
  ch \in Range(LowerCase) \cup Range(UpperCase) \cup Range(Digits) \cup {"_"}
to_env_var_name(n) == upper([i \in 1..Len(n) |-> IF is_word(n[i]) THEN n[i] ELSE "_"])
\* port_number = lambda p: p.split('/')[0]
port_number_with_protocol(p) == p
port_number(p) == split(p, "/")[1]
Underscore == <<"_">>
HostSuffix == <<"H", "O", "S", "T">>
PortSuffix == <<"P", "O", "R", "T">>
InternalPortSuffix == <<"I", "N", "T", "E", "R", "N", "A", "L", "_", "P", "O", "R", "T">>
InstancesSuffix == <<"I", "N", "S", "T", "A", "N", "C", "E", "S">>

\* Container.get_link_variables : the loop over self.ports.items(), and the
\* method; c is [name, ip, ports], ports as _parse_ports returned them.
RECURSIVE port_links(_, _, _, _)
port_links(links, basename, ports, add_internal) ==
  IF ports = <<>> THEN links
  ELSE LET name == to_env_var_name(Head(ports).name)
           spec == Head(ports).spec
           external == setitem(links, join(Underscore, <<basename, name, PortSuffix>>),
                               port_number(spec.external[2]))
           internal == IF add_internal
                       THEN setitem(external,
                                    join(Underscore, <<basename, name, InternalPortSuffix>>),
                                    port_number(spec.exposed))
                       ELSE external
       IN port_links(internal, basename, Tail(ports), add_internal)
Container_get_link_variables(c, add_internal) ==
  LET basename == to_env_var_name(c.name)
  IN port_links(<<[key |-> join(Underscore, <<basename, HostSuffix>>), value |-> c.ip]>>,
                basename, c.ports, add_internal)

\* Service.get_link_variables : the two loops, and the method; s is
\* [name, containers], the containers in the order of self._containers.
RECURSIVE prefixed(_, _, _)
prefixed(links, basename, items) ==
  IF items = <<>> THEN links
  ELSE prefixed(setitem(links, join(Underscore, <<basename, Head(items).key>>),
                        Head(items).value),
                basename, Tail(items))
RECURSIVE container_links(_, _, _, _)
container_links(links, basename, cs, add_internal) ==
  IF cs = <<>> THEN links
  ELSE container_links(prefixed(links, basename,
                                Container_get_link_variables(Head(cs), add_internal)),
                       basename, Tail(cs), add_internal)
Service_get_link_variables(s, add_internal) ==
  LET basename == to_env_var_name(s.name)
  IN setitem(container_links(<<>>, basename, s.containers, add_internal),
             join(Underscore, <<basename, InstancesSuffix>>),
             join(<<",">>, [i \in 1..Len(s.containers) |-> s.containers[i].name]))

\* At most this many ports of one container, and instances of one service.
MaxPorts == 2
MaxInstances == 2
\* The names drawn: some differ only in a character that is not a word
\* character, or in case.
LinkServiceNames == {<<"s", "v", "c">>, <<"m", "y", "-", "s", "v", "c">>}
LinkContainerNames == {<<"c", "-", "1">>, <<"c", "_", "1">>}
LinkPortNames == {Http, <<"h", "-", "p">>, <<"h", "_", "p">>}
\* The specification of the port of each name, and the ip of the ship of each
\* container.
LinkPortSpec(name) ==
  CASE name = Http -> PyInt(80)
    [] name = <<"h", "-", "p">> -> PyStr(<<"5", "3", "/">> \o Udp)
    [] OTHER -> PyStr(<<"8", "0", "8", "0", ":", "8", "1">>)
LinkIp(name) ==
  CASE name = <<"c", "-", "1">> -> <<"1", "0", ".", "0", ".", "0", ".", "1">>
    [] OTHER -> <<"1", "0", ".", "0", ".", "0", ".", "2">>
\* The tuples of distinct elements of S, no longer than n.
Distinct(S, n) ==
  UNION {{q \in [1..k -> S] : \A i, j \in 1..k : q[i] = q[j] => i = j} : k \in 0..n}
LinkContainers ==
  {[name |-> n, ip |-> LinkIp(n),
    ports |-> [i \in 1..Len(q) |-> [name |-> q[i], spec |-> LinkPortSpec(q[i])]]] :
     n \in LinkContainerNames, q \in Distinct(LinkPortNames, MaxPorts)}
LinkServices ==
  {[name |-> n, containers |-> cs] :
     n \in LinkServiceNames,
     cs \in {q \in Distinct(LinkContainers, MaxInstances) :
               /\ q # <<>>
               /\ \A i, j \in 1..Len(q) : q[i].name = q[j].name => i = j}}
GetLinkVariablesCalls ==
  {[op |-> "get_link_variables", service |-> s, add_internal |-> b] :
     s \in LinkServices, b \in BOOLEAN}

\* Container.__init__ : units = {'k': 1024, 'm': 1024*1024, 'g': 1024*1024*1024}
units ==
  [key \in {"k", "m", "g"} |->
     CASE key = "k" -> 1024 [] key = "m" -> 1024 * 1024 [] key = "g" -> 1024 * 1024 * 1024]
\* Container.__init__ : self.mem_limit, from limits.get('memory'): a string
\* that ends in a unit becomes a number, everything else stays what it is.
mem_limit(memory) ==
  IF memory.type = "str"
  THEN LET suffix == lower(<<memory.value[Len(memory.value)]>>)[1]
       IN IF suffix \in DOMAIN units
          THEN IF is_int(SubSeq(memory.value, 1, Len(memory.value) - 1))
               THEN Returns(PyInt(int(SubSeq(memory.value, 1, Len(memory.value) - 1))
                                  * units[suffix]))
               ELSE Raises("ValueError")
          ELSE Returns(memory)
  ELSE Returns(memory)
\* Container.__init__ : the fields set from the `limits` section; the swap
\* limit is not read.
container_limits(limits) ==
  LET m == mem_limit(limits.memory)
  IN IF m.exc # "None" THEN m
     ELSE Returns([cpu_shares |-> limits.cpu, mem_limit |-> m.value])

\* The limits drawn: absent (None), a number, and strings with and without
\* a unit.
LimitValues ==
  {[type |-> "NoneType"], PyInt(42), PyStr(<<"4", "2">>), PyStr(<<"4", "2", "k">>),
   PyStr(<<"4", "2", "K">>), PyStr(<<"3", "m">>), PyStr(<<"3", "M">>),
   PyStr(<<"1", "g">>), PyStr(<<"1", "G">>), PyStr(<<"0", "0", "7", "k">>)}
LimitsCalls ==
  {[op |-> "limits", limits |-> [cpu |-> [type |-> "NoneType"], memory |-> m, swap |-> w]] :
     m \in LimitValues, w \in LimitValues}

\* dict.update : the entries of `other`, in their order.
RECURSIVE dict_update_items(_, _)
dict_update_items(d, other) ==
  IF other = <<>> THEN d
  ELSE dict_update_items(setitem(d, Head(other).key, Head(other).value), Tail(other))
\* The link variables, their values as strings of the environment.
as_env(links) == [i \in 1..Len(links) |-> [key |-> links[i].key, value |-> PyStr(links[i].value)]]

\* Container.__init__, env_list_expand : a list becomes its elements joined
\* with spaces (the lists drawn hold strings).
env_list_expand(v) ==
  IF v.type = "list"
  THEN PyStr(join(<<" ">>, [i \in 1..Len(v.items) |-> v.items[i].value]))
  ELSE v
MaestroEnvironmentName ==
  <<"M", "A", "E", "S", "T", "R", "O", "_", "E", "N", "V", "I", "R", "O", "N", "M", "E", "N", "T",
    "_", "N", "A", "M", "E">>
ServiceNameKey == <<"S", "E", "R", "V", "I", "C", "E", "_", "N", "A", "M", "E">>
ContainerNameKey == <<"C", "O", "N", "T", "A", "I", "N", "E", "R", "_", "N", "A", "M", "E">>
ContainerHostAddress ==
  <<"C", "O", "N", "T", "A", "I", "N", "E", "R", "_", "H", "O", "S", "T", "_",
    "A", "D", "D", "R", "E", "S", "S">>
\* Container.__init__ : the four variables it seeds.
seeds(env_name, service_name, name, ip) ==
  <<[key |-> MaestroEnvironmentName, value |-> PyStr(env_name)],
    [key |-> ServiceNameKey, value |-> PyStr(service_name)],
    [key |-> ContainerNameKey, value |-> PyStr(name)],
    [key |-> ContainerHostAddress, value |-> PyStr(ip)]>>
\* Container.__init__ : self.env : the env of the service, updated with the
\* env of the instance, lists expanded, then the seeds.
container_env_seeded_first(service_env, config_env, seeded) ==
  LET env0 == dict_update_items(dict_update_items(seeded, service_env), config_env)
  IN [i \in 1..Len(env0) |-> [key |-> env0[i].key, value |-> env_list_expand(env0[i].value)]]
container_env(service_env, config_env, seeded) ==
  LET env0 == dict_update_items(service_env, config_env)
      expanded == [i \in 1..Len(env0) |->
                     [key |-> env0[i].key, value |-> env_list_expand(env0[i].value)]]
  IN dict_update_items(expanded, seeded)
\* Conductor.__init__ : the link-variable loop for one container: the link
\* variables of its own service with the internal ports, then those of every
\* dependency.
RECURSIVE update_with_dependencies(_, _)
update_with_dependencies(e, dependencies) ==
  IF dependencies = <<>> THEN e
  ELSE update_with_dependencies(
         dict_update_items(e, as_env(Service_get_link_variables(Head(dependencies), FALSE))),
         Tail(dependencies))
propagated_env(e, service, dependencies) ==
  update_with_dependencies(
    dict_update_items(e, as_env(Service_get_link_variables(service, TRUE))), dependencies)

\* The environments drawn: the names of services, instances and ports are
\* the words the seeded variables are made of; the env sections define the
\* seeded variables themselves, one value is a list.
Foo == <<"F", "O", "O">>
EnvServiceNames == {<<"s", "e", "r", "v", "i", "c", "e">>, <<"c", "o", "n", "t", "a", "i", "n", "e", "r">>}
EnvContainerNames == {<<"n", "a", "m", "e">>, <<"h", "o", "s", "t">>}
EnvPorts == {<<>>, <<[name |-> <<"a", "d", "d", "r", "e", "s", "s">>, spec |-> PyInt(80)]>>}
SeededKeys == <<MaestroEnvironmentName, ServiceNameKey, ContainerNameKey, ContainerHostAddress>>
EnvSections(v) ==
  {<<>>,
   <<[key |-> ServiceNameKey, value |-> v], [key |-> Foo, value |-> v]>>,
   <<[key |-> ContainerNameKey, value |-> v],
     [key |-> Foo, value |-> [type |-> "list", items |-> <<v, v>>]]>>,
   [i \in 1..Len(SeededKeys) |-> [key |-> SeededKeys[i], value |-> v]]}
EnvDependency ==
  [name |-> <<"c", "o", "n", "t", "a", "i", "n", "e", "r">>,
   containers |-> <<[name |-> <<"h", "o", "s", "t">>,
                     ip |-> <<"1", "0", ".", "0", ".", "0", ".", "9">>,
                     ports |-> <<[name |-> <<"a", "d", "d", "r", "e", "s", "s">>, spec |-> PyInt(80)]>>]>>]
EnvCalls ==
  {[op |-> "env", env_name |-> TestEnvName,
    service |-> [name |-> s, env |-> se],
    container |-> [name |-> c, ip |-> LinkIp(c), ports |-> p, env |-> ce],
    dependencies |-> d] :
     s \in EnvServiceNames, se \in EnvSections(PyStr(<<"x">>)),
     c \in EnvContainerNames, ce \in EnvSections(PyStr(<<"y">>)),
     p \in EnvPorts, d \in {<<>>, <<EnvDependency>>}}

\* Container.__init__ : self.volumes, from the `volumes` section (destination
\* to source): the source, or the destination when no source is given, mapped
\* to the destination.  No other section on volumes is read.
RECURSIVE container_volumes(_)
container_volumes(items) ==
  IF items = <<>> THEN <<>>
  ELSE LET rest == container_volumes(Tail(items))
           dst == Head(items).key
           src == Head(items).value
       IN dict_update_items(
            <<[key |-> IF src.type = "NoneType" THEN dst ELSE src.value, value |-> dst]>>,
            rest)

\* The volume sections drawn for two instances: bind mounts, container-only
\* volumes and the instances to take volumes from.
In1 == <<"/", "i", "n", "1">>
In2 == <<"/", "i", "n", "2">>
Out == <<"/", "o", "u", "t">>
Instance1 == <<"i", "-", "1">>
Instance2 == <<"i", "-", "2">>
Instance3 == <<"i", "-", "3">>
VolumeSections ==
  {[volumes |-> v, container_volumes |-> cv, volumes_from |-> vf] :
     v \in {<<>>, <<[key |-> In1, value |-> PyStr(Out)]>>,
            <<[key |-> In2, value |-> [type |-> "NoneType"]]>>},
     cv \in {<<>>, <<In1>>, <<In2>>},
     vf \in {<<>>, <<Instance1>>, <<Instance2>>, <<Instance3>>}}
VolumesCalls ==
  {[op |-> "volumes",
    instances |-> <<[name |-> Instance1, config |-> c1], [name |-> Instance2, config |-> c2]>>] :
     c1 \in {x \in VolumeSections : Instance1 \notin Range(x.volumes_from)},
     c2 \in {x \in VolumeSections : Instance2 \notin Range(x.volumes_from)}}

\* A fixed environment for the variables the functions do not touch.
EntitiesConfig ==
  [requires |-> [s \in ServiceNames |-> {}], instances |-> PlayInstances,
   image |-> <<"a">>, registries |-> Registries, name |-> TestEnvName, wants_info |-> NoWants,
   ships |-> PlayShips, ports |-> PlayPorts]

ParsePortsCalls ==
  {[op |-> "_parse_ports", ports |-> <<[name |-> Http, spec |-> v]>>] : v \in PortSpecs}

InitEntities ==
  /\ config = EntitiesConfig
  /\ docker = [c \in Containers |-> Absent]
  /\ phase = "config"
  /\ _requires = [s \in ServiceNames |-> {}]
  /\ _needed_for = [s \in ServiceNames |-> {}]
  /\ ordered_default = <<>>
  /\ ncalls = 0
  /\ call \in ParsePortsCalls \cup GetLinkVariablesCalls \cup LimitsCalls
               \cup EnvCalls \cup VolumesCalls
  /\ result = NoResult
  /\ IdlePlay
  /\ IdleExec

\* self.ports = self._parse_ports(config.get('ports', {}))
ParsePorts ==
  /\ call.op = "_parse_ports" /\ ncalls = 0
  /\ ncalls' = 1
  /\ result' = _parse_ports(call.ports)
  /\ UNCHANGED <<config, phase, _requires, _needed_for, ordered_default, call>>
  /\ UNCHANGED <<playvars, auxvars>>

\* Container.__init__ of every instance of a service (its ports parsed), then
\* service.get_link_variables(add_internal).
parsed_container(c) == [name |-> c.name, ip |-> c.ip, ports |-> _parse_ports(c.ports).value]
GetLinkVariables ==
  /\ call.op = "get_link_variables" /\ ncalls = 0
  /\ ncalls' = 1
  /\ result' =
       Returns(Service_get_link_variables(
                 [name |-> call.service.name,
                  containers |-> [i \in 1..Len(call.service.containers) |->
                                    parsed_container(call.service.containers[i])]],
                 call.add_internal))
  /\ UNCHANGED <<config, phase, _requires, _needed_for, ordered_default, call>>
  /\ UNCHANGED <<playvars, auxvars>>

\* Container.__init__ : limits = config.get('limits', {}) and what follows.
Limits ==
  /\ call.op = "limits" /\ ncalls = 0
  /\ ncalls' = 1
  /\ result' = container_limits(call.limits)
  /\ UNCHANGED <<config, phase, _requires, _needed_for, ordered_default, call>>
  /\ UNCHANGED <<playvars, auxvars>>

\* Container.__init__ of one instance (its ports and its env), then the
\* link-variable loop of Conductor.__init__ for it.
ContainerEnv ==
  /\ call.op = "env" /\ ncalls = 0
  /\ ncalls' = 1
  /\ LET c == call.container
         self == parsed_container(c)
         e == container_env(call.service.env, c.env,
                            seeds(call.env_name, call.service.name, c.name, c.ip))
     IN result' = Returns(propagated_env(
                            e, [name |-> call.service.name, containers |-> <<self>>],
                            [i \in 1..Len(call.dependencies) |->
                               [name |-> call.dependencies[i].name,
                                containers |->
                                  [j \in 1..Len(call.dependencies[i].containers) |->
                                     parsed_container(call.dependencies[i].containers[j])]]]))
  /\ UNCHANGED <<config, phase, _requires, _needed_for, ordered_default, call>>
  /\ UNCHANGED <<playvars, auxvars>>

\* Conductor.__init__ for the instances of a description, as far as their
\* volumes go: Container.__init__ of each.
Volumes ==
  /\ call.op = "volumes" /\ ncalls = 0
  /\ ncalls' = 1
  /\ result' = Returns([i \in 1..Len(call.instances) |->
                          [name |-> call.instances[i].name,
                           volumes |-> container_volumes(call.instances[i].config.volumes)]])
  /\ UNCHANGED <<config, phase, _requires, _needed_for, ordered_default, call>>
  /\ UNCHANGED <<playvars, auxvars>>

NextEntities == ParsePorts \/ GetLinkVariables \/ Limits \/ ContainerEnv \/ Volumes

SpecEntities == InitEntities /\ [][NextEntities]_vars
\* ------------------------------------------------------------ SpecFilter
\* One maestro process running start or stop with -C/--container-filter and
\* -S/--ship-filter on the command line: execute() hands every option to the
\* Conductor command, whose **kwargs takes those it has no parameter for.

\* The option was not given (None).
NoFilter == <<>>
\* The patterns given with -C and with -S.
ContainerFilters == {NoFilter, <<"c", "1">>, <<"c", "*">>, <<"?", "2">>, <<"x", "*">>}
ShipFilters == {NoFilter, <<"s", "1">>, <<"s", "*">>}
\* Two instances of service a, on two ships.
FilterInstances == [c \in {"c1", "c2"} |-> "a"]
FilterThings == { {"a"}, {"c1"}, {"c1", "c2"}, {"b"} }

InitFilter ==
  /\ config = [requires |-> [s \in ServiceNames |-> IF s = "b" THEN {"a"} ELSE {}],
               instances |-> FilterInstances,
               image |-> <<"a">>, registries |-> Registries, name |-> TestEnvName,
               wants_info |-> NoWants, ships |-> PlayShips, ports |-> PlayPorts,
               omit |-> {}]
  /\ docker \in [DOMAIN FilterInstances -> ExecDockerStates]
  /\ phase = "config"
  /\ _requires = [s \in ServiceNames |-> {}]
  /\ _needed_for = [s \in ServiceNames |-> {}]
  /\ ordered_default = <<>>
  /\ ncalls = 0
  /\ call = NoCall
  /\ result = NoResult
  /\ IdlePlay
  /\ _wants_info = [s \in ServiceNames |-> {}]
  /\ env = [c \in Containers |-> {}]
  /\ strays = [c \in Containers |-> Absent]
  /\ \E command \in {"start", "stop"}, things \in FilterThings, wd \in BOOLEAN,
        cf \in ContainerFilters, sf \in ShipFilters :
       options = [command |-> command, things |-> things, expand_all |-> FALSE,
                  with_dependencies |-> wd, ignore_dependencies |-> FALSE,
                  container_filter |-> cf, ship_filter |-> sf]
  /\ audit = <<>>
  /\ rc = NoReturn
  /\ stderr = <<>>
  /\ interrupted = FALSE

NextFilter ==
  \/ Construct \/ ExecDispatch
  \/ Ping0 \/ UpId \/ Lookup \/ Remove \/ Images \/ Login \/ Pull \/ Create
  \/ WaitCreate \/ StartCall \/ WaitRunning \/ Ping60 \/ Logs \/ EndStart
  \/ StopInspect \/ StopCall
  \/ AuditEnd \/ ExecReturn

SpecFilter == InitFilter /\ [][NextFilter]_vars
\* ------------------------------------------------------------ SpecComplete
\* Conductor.complete, the shell completion helper, on command lines drawn
\* from a bounded set: the tokens are strings of characters, the names of the
\* services and containers of the Conductor too.

\* At most this many tokens on the command line.
MaxTokens == 3

AVAILABLE_MAESTRO_COMMANDS ==
  << <<"s", "t", "a", "t", "u", "s">>, <<"s", "t", "a", "r", "t">>,
     <<"s", "t", "o", "p">>, <<"r", "e", "s", "t", "a", "r", "t">>,
     <<"p", "u", "l", "l">>, <<"c", "l", "e", "a", "n">>, <<"l", "o", "g", "s">>,
     <<"d", "e", "p", "t", "r", "e", "e">> >>
\* self.services.keys() and self.containers.keys() of the Conductor built;
\* "web" names a service and one of its instances.
CompleteServices == << <<"w", "e", "b">>, <<"d", "b">> >>
CompleteContainers == << <<"w", "e", "b">>, <<"w", "e", "b", "-", "2">>, <<"d", "b", "-", "1">> >>
\* The tokens drawn: the program, prefixes of commands and of names, whole
\* commands and names, an option, the empty token and a token with a space.
Tokens ==
  { <<"m", "a", "e", "s", "t", "r", "o">>, <<"s", "t">>, <<"s", "t", "a", "r", "t">>,
    <<"s", "t", "o", "p">>, <<"w">>, <<"w", "e", "b">>, <<"d", "b", "-", "1">>,
    <<"x">>, <<>>, <<"-", "f">>, <<"s", "t", "o", "p", " ", "d">> }
CompleteCalls ==
  {[op |-> "complete", tokens |-> t] : t \in UNION {[1..n -> Tokens] : n \in 0..MaxTokens}}

\* Conductor.complete : the loop that splits the tokens at spaces and drops
\* the options.
RECURSIVE complete_args(_)
complete_args(tokens) ==
  IF tokens = <<>> THEN <<>>
  ELSE SelectSeq(split(Head(tokens), " "), LAMBDA x : ~startswith(x, <<"-">>))
       \o complete_args(Tail(tokens))
\* Conductor.complete : the choices, taken from the number of arguments
\* before the empty prefix is appended for a whole command.
choices(args) ==
  IF Len(args) <= 2 THEN AVAILABLE_MAESTRO_COMMANDS
  ELSE CompleteServices \o CompleteContainers
\* Conductor.complete : what it prints, as the set of the words printed.
complete(tokens) ==
  LET args == complete_args(tokens)
      appended == IF Len(args) = 2 /\ args[2] \in Range(choices(args))
                  THEN Append(args, <<>>) ELSE args
      prefix == IF Len(appended) > 2 THEN appended[Len(appended)]
                ELSE IF Len(args) = 2 THEN args[2] ELSE <<>>
  IN {x \in Range(choices(args)) : startswith(x, prefix)}

InitComplete ==
  /\ config = EntitiesConfig
  /\ docker = [c \in Containers |-> Absent]
  /\ phase = "config"
  /\ _requires = [s \in ServiceNames |-> {}]
  /\ _needed_for = [s \in ServiceNames |-> {}]
  /\ ordered_default = <<>>
  /\ ncalls = 0
  /\ call \in CompleteCalls
  /\ result = NoResult
  /\ IdlePlay
  /\ IdleExec

Complete ==
  /\ call.op = "complete" /\ ncalls = 0
  /\ ncalls' = 1
  /\ result' = Returns(complete(call.tokens))
  /\ UNCHANGED <<config, phase, _requires, _needed_for, ordered_default, call>>
  /\ UNCHANGED <<playvars, auxvars>>

NextComplete == Complete

SpecComplete == InitComplete /\ [][NextComplete]_vars
\* ------------------------------------------------------------ SpecDeptree
\* The Conductor is built from a description and Conductor.deptree is called
\* on it once.  What it prints is kept as one record per root service: the
\* root and the lines under it, each line the depth of its indentation and
\* the name printed.

\* Conductor._to_services : the services of the things, once each; a name
\* that is neither a container nor a service raises.
_to_services(things) ==
  IF \E t \in things : t \notin Containers /\ t \notin ServiceNames
  THEN [exc |-> "OrchestrationException", services |-> {}]
  ELSE [exc |-> "None",
        services |-> {IF t \in Containers THEN config.instances[t] ELSE t : t \in things}]

\* sorted(<set of services>) : Service defines no ordering, the services
\* come out in an order of the interpreter's, here `order`.
sorted_services(S, order) == SelectSeq(order, LAMBDA s : s \in S)

\* Conductor.deptree, treehelper : the dependencies of the service that are
\* to be printed under it, then each of them with its own subtree; `shown` is
\* one set, shared by all the calls made for one root.  Both return what was
\* printed and what `shown` then holds.
RECURSIVE treehelper(_, _, _, _, _)
RECURSIVE treehelper_loop(_, _, _, _, _)
treehelper(service, depth, shown, recursive, order) ==
  IF depth > RecursionLimit + 1
  THEN [exc |-> "RuntimeError", lines |-> <<>>, shown |-> shown]
  ELSE LET deps == sorted_services(IF recursive THEN _requires[service]
                                   ELSE _requires[service] \ shown, order)
       IN treehelper_loop(deps, depth, shown \cup Range(deps), recursive, order)
treehelper_loop(deps, depth, shown, recursive, order) ==
  IF deps = <<>> THEN [exc |-> "None", lines |-> <<>>, shown |-> shown]
  ELSE LET sub == treehelper(Head(deps), depth + 1, shown, recursive, order)
       IN IF sub.exc # "None" THEN sub
          ELSE LET rest == treehelper_loop(Tail(deps), depth, sub.shown, recursive, order)
               IN [exc |-> rest.exc,
                   lines |-> <<[depth |-> depth, name |-> Head(deps)]>>
                             \o sub.lines \o rest.lines,
                   shown |-> rest.shown]

\* Conductor.deptree : treehelper(service, ' ', set([])) : the set a root's
\* tree starts with.
root_shown_shared(previous) == previous
root_shown(previous) == {}
\* Conductor.deptree : the loop over the root services.
RECURSIVE deptree_loop(_, _, _, _)
deptree_loop(services, previous, recursive, order) ==
  IF services = <<>> THEN [exc |-> "None", roots |-> <<>>]
  ELSE LET tree == treehelper(Head(services), 1, root_shown(previous), recursive, order)
       IN IF tree.exc # "None" THEN [exc |-> tree.exc, roots |-> <<>>]
          ELSE LET rest == deptree_loop(Tail(services), tree.shown, recursive, order)
               IN [exc |-> rest.exc,
                   roots |-> IF rest.exc # "None" THEN <<>>
                             ELSE <<[root |-> Head(services), lines |-> tree.lines]>>
                                  \o rest.roots]
\* Conductor.deptree
deptree(things, recursive, order) ==
  LET services == _to_services(IF things = {} THEN ServiceNames ELSE things)
  IN IF services.exc # "None" THEN [exc |-> services.exc, roots |-> <<>>]
     ELSE deptree_loop(sorted_services(services.services, order), {}, recursive, order)

\* The orders in which the interpreter may sort the services.
ServiceOrders ==
  {q \in [1..Cardinality(ServiceNames) -> ServiceNames] :
     \A i, j \in 1..Cardinality(ServiceNames) : q[i] = q[j] => i = j}

Deptree ==
  /\ phase = "ready" /\ ncalls = 0
  /\ \E things \in SUBSET ThingNames, recursive \in BOOLEAN, order \in ServiceOrders :
       /\ Cardinality(things) <= MaxThings
       /\ call' = [op |-> "deptree", things |-> things, forward |-> TRUE,
                   recursive |-> recursive, order |-> order]
       /\ result' = deptree(things, recursive, order)
  /\ ncalls' = 1
  /\ UNCHANGED <<config, phase, _requires, _needed_for, ordered_default>>
  /\ UNCHANGED playvars
  /\ UNCHANGED auxvars

NextDeptree == Construct \/ Deptree

SpecDeptree == InitPlan /\ [][NextDeptree]_vars
\* ------------------------------------------------------------ SpecLoader
\* yaml.load with the MaestroYamlLoader on documents drawn from a bounded
\* set.  A document is its node graph: a scalar node [kind, tag, text], a
\* mapping node [kind, pairs] with pairs of a key node and a value node, a
\* sequence node [kind, items].

\* At most this many pairs in the mapping at the top of a document.
MaxPairs == 2

Scalar(tag, text) == [kind |-> "scalar", tag |-> tag, text |-> text]
Mapping(pairs) == [kind |-> "mapping", pairs |-> pairs]
Sequence(items) == [kind |-> "sequence", items |-> items]
Pair(k, v) == [key |-> k, value |-> v]

\* The keys drawn: two plain strings, the integer 1, the string "1" and the
\* boolean true; and the values: a string, mappings with and without a
\* repeated key, and a sequence that holds a mapping.
KeyNodes ==
  {Scalar("str", <<"a">>), Scalar("str", <<"b">>), Scalar("int", <<"1">>),
   Scalar("str", <<"1">>), Scalar("bool", <<"t", "r", "u", "e">>)}
X == Scalar("str", <<"x">>)
Y == Scalar("str", <<"y">>)
ValueNodes ==
  {X,
   Mapping(<<Pair(Scalar("str", <<"a">>), X), Pair(Scalar("str", <<"b">>), Y)>>),
   Mapping(<<Pair(Scalar("str", <<"a">>), X), Pair(Scalar("str", <<"a">>), Y)>>),
   Mapping(<<Pair(Scalar("int", <<"1">>), X), Pair(Scalar("str", <<"1">>), Y)>>),
   Sequence(<<X, Mapping(<<Pair(Scalar("str", <<"b">>), X), Pair(Scalar("str", <<"b">>), X)>>)>>),
   Sequence(<<Mapping(<<Pair(Scalar("str", <<"a">>), X)>>),
              Mapping(<<Pair(Scalar("str", <<"a">>), Y)>>)>>)}
Documents ==
  {Mapping(p) : p \in UNION {[1..n -> {Pair(k, v) : k \in KeyNodes, v \in ValueNodes}] :
                               n \in 0..MaxPairs}}
LoadCalls == {[op |-> "load", node |-> d] : d \in Documents}

\* construct_object of a scalar node: the Python value of its tag.
construct_scalar(node) == [type |-> node.tag, value |-> node.text]
\* Python's == and hash on the keys constructed: a bool is the number 0 or 1.
is_number(v) == v.type \in {"int", "bool"}
number(v) ==
  IF v.type = "int" THEN int(v.value) ELSE IF v.value = <<"t", "r", "u", "e">> THEN 1 ELSE 0
py_eq(v, w) ==
  IF is_number(v) /\ is_number(w) THEN number(v) = number(w)
  ELSE v.type = w.type /\ v.value = w.value

\* MaestroYamlConstructor.construct_mapping : `key in keys`.
seen_never(key, keys) == FALSE
seen(key, keys) == \E i \in 1..Len(keys) : py_eq(keys[i], key)
\* MaestroYamlConstructor.construct_mapping : the loop over node.value; TRUE
\* when it raises ConstructorError for a duplicate key.
RECURSIVE found_duplicate(_, _)
found_duplicate(pairs, keys) ==
  IF pairs = <<>> THEN FALSE
  ELSE LET key == construct_scalar(Head(pairs).key)
       IN IF seen(key, keys) THEN TRUE
          ELSE found_duplicate(Tail(pairs), Append(keys, key))

\* SafeConstructor.construct_mapping : mapping[key] = value for every pair,
\* a later value replacing that of an equal key.
mapping_setitem(d, key, value) ==
  IF \E i \in 1..Len(d) : py_eq(d[i].key, key)
  THEN [i \in 1..Len(d) |-> IF py_eq(d[i].key, key) THEN [key |-> d[i].key, value |-> value]
                                              ELSE d[i]]
  ELSE Append(d, [key |-> key, value |-> value])

\* construct_object : a scalar, a sequence (construct_yaml_seq) or a mapping
\* (construct_yaml_map, which calls self.construct_mapping); and
\* MaestroYamlConstructor.construct_mapping with the loop of the base class.
RECURSIVE construct_object(_)
RECURSIVE construct_sequence(_)
RECURSIVE construct_pairs(_, _)
construct_mapping(node) ==
  IF node.kind # "mapping" THEN Raises("ConstructorError")
  ELSE IF found_duplicate(node.pairs, <<>>) THEN Raises("ConstructorError")
  ELSE construct_pairs(node.pairs, <<>>)
construct_pairs(pairs, d) ==
  IF pairs = <<>> THEN Returns([type |-> "dict", items |-> d])
  ELSE LET value == construct_object(Head(pairs).value)
       IN IF value.exc # "None" THEN value
          ELSE construct_pairs(Tail(pairs),
                               mapping_setitem(d, construct_scalar(Head(pairs).key),
                                               value.value))
construct_sequence(items) ==
  IF items = <<>> THEN Returns(<<>>)
  ELSE LET head == construct_object(Head(items))
       IN IF head.exc # "None" THEN head
          ELSE LET tail == construct_sequence(Tail(items))
               IN IF tail.exc # "None" THEN tail
                  ELSE Returns(<<head.value>> \o tail.value)
construct_object(node) ==
  IF node.kind = "scalar" THEN Returns(construct_scalar(node))
  ELSE IF node.kind = "sequence"
       THEN LET s == construct_sequence(node.items)
            IN IF s.exc # "None" THEN s ELSE Returns([type |-> "list", items |-> s.value])
       ELSE construct_mapping(node)

InitLoader ==
  /\ config = EntitiesConfig
  /\ docker = [c \in Containers |-> Absent]
  /\ phase = "config"
  /\ _requires = [s \in ServiceNames |-> {}]
  /\ _needed_for = [s \in ServiceNames |-> {}]
  /\ ordered_default = <<>>
  /\ ncalls = 0
  /\ call \in LoadCalls
  /\ result = NoResult
  /\ IdlePlay
  /\ IdleExec

\* yaml.load(..., Loader=MaestroYamlLoader) of a document whose root is a
\* mapping.
Load ==
  /\ call.op = "load" /\ ncalls = 0
  /\ ncalls' = 1
  /\ result' = construct_object(call.node)
  /\ UNCHANGED <<config, phase, _requires, _needed_for, ordered_default, call>>
  /\ UNCHANGED <<playvars, auxvars>>

NextLoader == Load

SpecLoader == InitLoader /\ [][NextLoader]_vars
\* ------------------------------------------------------------ SpecConstruct
\* Conductor.__init__ over descriptions that may lack the `name` key and may
\* declare no instance at all.
NoInstances == [c \in {} |-> "a"]
Unnamed(description) == [k \in DOMAIN description \ {"name"} |-> description[k]]

InitConstruct ==
  /\ \E E \in SUBSET Edges, m \in InstanceMaps \cup {NoInstances},
        w \in WantsOptions, named \in BOOLEAN :
       /\ Cardinality(E) <= MaxLinkEdges
       /\ LET description ==
                [requires |-> RequiresOf(E), instances |-> m,
                 image |-> <<"a">>, registries |-> Registries, name |-> TestEnvName,
                 wants_info |-> w, ships |-> [c \in DOMAIN m |-> ShipOf[c]],
                 ports |-> [c \in DOMAIN m |-> PortsOf[c]]]
          IN config = IF named THEN description ELSE Unnamed(description)
  /\ docker = [c \in Containers |-> Absent]
  /\ phase = "config"
  /\ _requires = [s \in ServiceNames |-> {}]
  /\ _needed_for = [s \in ServiceNames |-> {}]
  /\ ordered_default = <<>>
  /\ ncalls = 0
  /\ call = NoCall
  /\ result = NoResult
  /\ _status = [c \in Containers |-> NoStatus]
  /\ cmd = NoCmd
  /\ _containers = <<>>
  /\ idx = 0
  /\ pc = "idle"
  /\ task = NoTask
  /\ log = <<>>
  /\ results = <<>>
  /\ active = {}
  /\ exc = "None"
  /\ _wants_info = [s \in ServiceNames |-> {}]
  /\ env = [c \in Containers |-> {}]
  /\ strays = [c \in Containers |-> Absent]
  /\ options = NoOptions
  /\ audit = <<>>
  /\ rc = NoReturn
  /\ stderr = <<>>
  /\ interrupted = FALSE

NextConstruct == Construct

SpecConstruct == InitConstruct /\ [][NextConstruct]_vars
\* ------------------------------------------------------------ entity claims
\* A side of a port specification that is a number with, possibly, a
\* protocol that is tcp or udp; its number and its protocol.
SideParts(side) == split(side, "/")
ValidSide(side) ==
  /\ Len(SideParts(side)) \in {1, 2}
  /\ is_int(SideParts(side)[1])
  /\ Len(SideParts(side)) = 2 => SideParts(side)[2] \in {Tcp, Udp}
SideProtocol(side) == IF Len(SideParts(side)) = 2 THEN SideParts(side)[2] ELSE Tcp
SideNumber(side) == int(SideParts(side)[1])
\* The number and the protocol of a parsed port, "80/tcp".
Parsed(port) == [number |-> int(split(port, "/")[1]), protocol |-> split(port, "/")[2]]
\* The sides of a string specification, and whether the specification is one
\* the format admits.
SpecSides(spec) == split(spec.value, ":")
ValidPart(v) == v.type = "int" \/ (v.type = "str" /\ ValidSide(v.value))
ValidSpec(spec) ==
  CASE spec.type = "int" -> TRUE
    [] spec.type = "str" ->
         /\ Len(SpecSides(spec)) \in {1, 2}
         /\ \A i \in 1..Len(SpecSides(spec)) : ValidSide(SpecSides(spec)[i])
         /\ \A i, j \in 1..Len(SpecSides(spec)) :
               SideProtocol(SpecSides(spec)[i]) = SideProtocol(SpecSides(spec)[j])
    [] spec.type = "dict" ->
         /\ spec.exposed.type # "absent" /\ spec.external.type # "absent"
         /\ ValidPart(spec.exposed)
         /\ IF spec.external.type = "list" THEN ValidPart(spec.external.items[2])
            ELSE ValidPart(spec.external)
    [] OTHER -> FALSE
ParsedPorts == call.op = "_parse_ports" /\ ncalls = 1

\* C25: an integer N or a string "A" or "A/proto" yields exposed = external =
\* that port, the protocol tcp when none is given, on host "0.0.0.0"; a string
\* "A:B" yields exposed = A and external = ("0.0.0.0", B); every invalid
\* specification (mismatched protocols, more than two sides, a non-numeric
\* port, an unknown protocol, an unsupported type) is rejected with
\* InvalidPortSpecException and with no other exception.
C25_PortSpecParsing ==
  ParsedPorts =>
    LET spec == call.ports[1].spec
    IN IF ValidSpec(spec)
       THEN /\ result.exc = "None"
            /\ Len(result.value) = 1 /\ result.value[1].name = call.ports[1].name
            /\ LET port == result.value[1].spec
               IN CASE spec.type = "int" ->
                         /\ Parsed(port.exposed) = [number |-> int(spec.value), protocol |-> Tcp]
                         /\ port.external = <<AllInterfaces, port.exposed>>
                    [] spec.type = "str" ->
                         LET sides == SpecSides(spec)
                         IN /\ Parsed(port.exposed) =
                                 [number |-> SideNumber(sides[1]),
                                  protocol |-> SideProtocol(sides[1])]
                            /\ port.external[1] = AllInterfaces
                            /\ Parsed(port.external[2]) =
                                 [number |-> SideNumber(sides[Len(sides)]),
                                  protocol |-> SideProtocol(sides[Len(sides)])]
                    [] OTHER -> TRUE
       ELSE result.exc = "InvalidPortSpecException"
\* The name of a variable as the naming rule gives it: every letter in upper
\* case, every character that is no letter and no digit replaced by '_'.
EnvChar(ch) ==
  CASE ch = "c" -> "C" [] ch = "h" -> "H" [] ch = "m" -> "M" [] ch = "p" -> "P"
    [] ch = "s" -> "S" [] ch = "t" -> "T" [] ch = "v" -> "V" [] ch = "y" -> "Y"
    [] ch \in {"0", "1", "2", "3", "4", "5", "6", "7", "8", "9"} -> ch
    [] OTHER -> "_"
EnvName(n) == [i \in 1..Len(n) |-> EnvChar(n[i])]
LinkHostName(s, c) == EnvName(s.name) \o <<"_">> \o EnvName(c.name) \o <<"_", "H", "O", "S", "T">>
LinkPortName(s, c, p) ==
  EnvName(s.name) \o <<"_">> \o EnvName(c.name) \o <<"_">> \o EnvName(p.name)
  \o <<"_", "P", "O", "R", "T">>
\* The external port number of a port specification, as a number.
ExternalNumber(p) ==
  IF p.spec.type = "int" THEN int(p.spec.value)
  ELSE SideNumber(SpecSides(p.spec)[Len(SpecSides(p.spec))])
\* The variables of a returned dict: its keys, and what a key holds.
Keys(d) == {d[i].key : i \in 1..Len(d)}
Get(d, key) == d[CHOOSE i \in 1..Len(d) : d[i].key = key].value
GotLinkVariables == call.op = "get_link_variables" /\ ncalls = 1
Instances(s) == {s.containers[i] : i \in 1..Len(s.containers)}
PortsOfInstance(c) == {c.ports[i] : i \in 1..Len(c.ports)}
LinkNames(s) ==
  {LinkHostName(s, c) : c \in Instances(s)}
  \cup UNION {{LinkPortName(s, c, p) : p \in PortsOfInstance(c)} : c \in Instances(s)}
InstancesName(s) == EnvName(s.name) \o <<"_", "I", "N", "S", "T", "A", "N", "C", "E", "S">>
\* The instance and port iterated last among those with a given name.
LastInstance(s, name) ==
  s.containers[CHOOSE i \in 1..Len(s.containers) :
     /\ LinkHostName(s, s.containers[i]) = name
     /\ \A j \in (i + 1)..Len(s.containers) : LinkHostName(s, s.containers[j]) # name]
HasPortNamed(s, c, name) == \E p \in PortsOfInstance(c) : LinkPortName(s, c, p) = name
LastPort(s, name) ==
  LET c == s.containers[CHOOSE i \in 1..Len(s.containers) :
             /\ HasPortNamed(s, s.containers[i], name)
             /\ \A j \in (i + 1)..Len(s.containers) : ~HasPortNamed(s, s.containers[j], name)]
  IN c.ports[CHOOSE i \in 1..Len(c.ports) :
       /\ LinkPortName(s, c, c.ports[i]) = name
       /\ \A j \in (i + 1)..Len(c.ports) : LinkPortName(s, c, c.ports[j]) # name]

\* C21: the link variables contributed by a container c of service s are
\* exactly {S}_{C}_HOST = the ip of c's ship and, for each named port p,
\* {S}_{C}_{P}_PORT = the external port number of p without its protocol,
\* S, C, P the names in upper case with non-alphanumerics replaced by '_'.
C21_LinkVariableNames ==
  GotLinkVariables /\ ~call.add_internal =>
    LET s == call.service
        links == result.value
    IN /\ Keys(links) \ {InstancesName(s)} = LinkNames(s)
       /\ \A c \in Instances(s) :
             /\ Get(links, LinkHostName(s, c)) = c.ip
             /\ \A p \in PortsOfInstance(c) :
                   /\ is_int(Get(links, LinkPortName(s, c, p)))
                   /\ int(Get(links, LinkPortName(s, c, p))) = ExternalNumber(p)

\* C21, amended: the same names; a name that several instances or ports
\* share holds the value of the one iterated last.
C21_LinkVariablesLastWins ==
  GotLinkVariables /\ ~call.add_internal =>
    LET s == call.service
        links == result.value
    IN /\ Keys(links) \ {InstancesName(s)} = LinkNames(s)
       /\ \A c \in Instances(s) :
             /\ Get(links, LinkHostName(s, c)) = LastInstance(s, LinkHostName(s, c)).ip
             /\ \A p \in PortsOfInstance(c) :
                   /\ is_int(Get(links, LinkPortName(s, c, p)))
                   /\ find(Get(links, LinkPortName(s, c, p)), "/") = -1
                   /\ int(Get(links, LinkPortName(s, c, p)))
                        = ExternalNumber(LastPort(s, LinkPortName(s, c, p)))
\* A service with two instances, one of them with two ports whose names
\* coincide as variable names ("h-p" and "h_p") and whose numbers differ: the
\* one variable holds the number of the second.
C21_Witness ==
  /\ GotLinkVariables /\ ~call.add_internal
  /\ Len(call.service.containers) = 2
  /\ \E c \in Instances(call.service) :
        /\ Len(c.ports) = 2
        /\ LinkPortName(call.service, c, c.ports[1]) = LinkPortName(call.service, c, c.ports[2])
        /\ ExternalNumber(c.ports[1]) # ExternalNumber(c.ports[2])
        /\ int(Get(result.value, LinkPortName(call.service, c, c.ports[1])))
             = ExternalNumber(c.ports[2])
\* What a limit is to be stored as: the number of a string of digits, times
\* 1024, 1024^2 or 1024^3 when k, m or g (in either case) follows it.
UnitOf(ch) ==
  CASE ch \in {"k", "K"} -> 1024
    [] ch \in {"m", "M"} -> 1048576
    [] ch \in {"g", "G"} -> 1073741824
    [] OTHER -> 1
StoredLimit(v) ==
  IF v.type = "int" THEN int(v.value)
  ELSE LET last == v.value[Len(v.value)]
       IN IF UnitOf(last) = 1 THEN int(v.value)
          ELSE int(SubSeq(v.value, 1, Len(v.value) - 1)) * UnitOf(last)
IsStored(field, v) ==
  /\ result.exc = "None"
  /\ field \in DOMAIN result.value
  /\ result.value[field].type = "int"
  /\ int(result.value[field].value) = StoredLimit(v)
LimitsSet == call.op = "limits" /\ ncalls = 1

\* C26: every memory or swap limit given as a string N followed by k, m or g
\* (either case) is stored as the integer N*1024, N*1024^2 or N*1024^3, a
\* numeric string without suffix as the integer N, an integer unchanged.
C26_Limits ==
  LimitsSet =>
    /\ call.limits.memory.type # "NoneType" => IsStored("mem_limit", call.limits.memory)
    /\ call.limits.swap.type # "NoneType" => IsStored("memswap_limit", call.limits.swap)
EnvBuilt == call.op = "env" /\ ncalls = 1
Defines(section, key) == \E i \in 1..Len(section) : section[i].key = key

\* C27: after the construction of the Conductor, link variables included,
\* the env of every container holds MAESTRO_ENVIRONMENT_NAME = the name of
\* the environment, SERVICE_NAME = the name of its service, CONTAINER_NAME =
\* its own name and CONTAINER_HOST_ADDRESS = the ip of its ship, whatever the
\* env of the service, the env of the container or the link variables define.
C27_SeededEnvironment ==
  EnvBuilt =>
    /\ result.exc = "None"
    /\ Get(result.value, MaestroEnvironmentName) = PyStr(call.env_name)
    /\ Get(result.value, ServiceNameKey) = PyStr(call.service.name)
    /\ Get(result.value, ContainerNameKey) = PyStr(call.container.name)
    /\ Get(result.value, ContainerHostAddress) = PyStr(call.container.ip)
\* The service's env and the container's env both define the four
\* variables, and link variables named after them were propagated
\* (CONTAINER_HOST_ADDRESS_PORT of service "container", instance "host").
C27_Witness ==
  /\ EnvBuilt
  /\ \A i \in 1..Len(SeededKeys) :
        Defines(call.service.env, SeededKeys[i]) /\ Defines(call.container.env, SeededKeys[i])
  /\ Defines(result.value, ContainerHostAddress \o <<"_", "P", "O", "R", "T">>)
  /\ Get(result.value, ContainerNameKey) = PyStr(call.container.name)
VolumesBuilt == call.op = "volumes" /\ ncalls = 1
\* The instance of a name, the destinations of its bind mounts and all its
\* volume paths.
InstanceNamed(n) == CHOOSE x \in Range(call.instances) : x.name = n
InstanceNames == {x.name : x \in Range(call.instances)}
BindDestinations(x) == {x.config.volumes[i].key : i \in 1..Len(x.config.volumes)}
VolumePaths(x) == BindDestinations(x) \cup Range(x.config.container_volumes)
\* The volume invariant of an instance.
VolumeInvariant(x) ==
  /\ BindDestinations(x) \cap Range(x.config.container_volumes) = {}
  /\ \A n \in Range(x.config.volumes_from) :
        /\ n \in InstanceNames
        /\ VolumePaths(x) \cap VolumePaths(InstanceNamed(n)) = {}

\* C28: the construction of the environment succeeds only if the volume
\* invariant holds: it fails with InvalidVolumeConfigurationException when a
\* bind-mount destination of a container is also one of its
\* container_volumes, when a volumes_from entry names no container, or when
\* the volume paths of a container meet those of a container it lists in
\* volumes_from.
C28_VolumeInvariant ==
  (VolumesBuilt /\ \E x \in Range(call.instances) : ~VolumeInvariant(x)) =>
     result.exc = "InvalidVolumeConfigurationException"
\* ------------------------------------------------------------ filter claims
\* The characters of the names of the containers and ships drawn.
NameChars(n) ==
  CASE n = "c1" -> <<"c", "1">> [] n = "c2" -> <<"c", "2">> [] n = "c3" -> <<"c", "3">>
    [] n = "s1" -> <<"s", "1">> [] n = "s2" -> <<"s", "2">> [] n = "a" -> <<"a">>
\* fnmatch : '*' stands for any characters, '?' for one.
RECURSIVE fnmatch(_, _)
fnmatch(name, pat) ==
  IF pat = <<>> THEN name = <<>>
  ELSE IF Head(pat) = "*"
       THEN fnmatch(name, Tail(pat)) \/ (name # <<>> /\ fnmatch(Tail(name), pat))
       ELSE /\ name # <<>>
            /\ Head(pat) \in {"?", Head(name)}
            /\ fnmatch(Tail(name), Tail(pat))
\* The container passes the filters that were given.
PassesFilters(c) ==
  /\ options.container_filter # NoFilter => fnmatch(NameChars(c), options.container_filter)
  /\ options.ship_filter # NoFilter => fnmatch(NameChars(config.ships[c]), options.ship_filter)

\* C22: with container_filter and/or ship_filter given, the containers the
\* play acts on are exactly the containers of the expanded thing list whose
\* name matches container_filter and whose ship's name matches ship_filter;
\* a container that fails a given filter is never acted on.
C22_FiltersApplied ==
  Acting =>
    /\ Range(_containers) =
         {c \in IF cmd.with_dependencies THEN CmdClosure ELSE CmdExpansion :
            PassesFilters(c)}
    /\ \A r \in Range(results) : PassesFilters(r.name)
\* ------------------------------------------------------------ completion claims
\* The words of the command line: the tokens split at spaces, options left
\* out; the last one is the word being completed.
Words == complete_args(call.tokens)
CommandNames == Range(AVAILABLE_MAESTRO_COMMANDS)
ThingNamesKnown == Range(CompleteServices) \cup Range(CompleteContainers)
Completed == call.op = "complete" /\ ncalls = 1

\* C23: complete prints exactly the candidates that start with the last
\* token, the word being completed; the candidates are the command names
\* while the command (position 2) is being completed, and the names of the
\* services and of the containers at every position after a whole command name.
C23_Completion ==
  Completed =>
    /\ Len(Words) = 2 =>
         result.value = {x \in CommandNames : startswith(x, Words[2])}
    /\ (Len(Words) > 2 /\ Words[2] \in CommandNames) =>
         result.value = {x \in ThingNamesKnown : startswith(x, Words[Len(Words)])}
\* ------------------------------------------------------------ deptree claims
Deptreed == call.op = "deptree" /\ ncalls = 1
\* The services the call names, directly or through a container; all of
\* them when it names none.
Roots ==
  IF call.things = {} THEN ServiceNames
  ELSE {IF t \in Containers THEN ServiceOf(t) ELSE t : t \in call.things}
\* The names printed under a root, and the line a line hangs from: the last
\* line before it that is one step less indented (0: the root).
Shown(r) == {r.lines[i].name : i \in 1..Len(r.lines)}
ParentLine(r, i) ==
  IF r.lines[i].depth = 1 THEN 0
  ELSE CHOOSE j \in 1..(i - 1) :
         /\ r.lines[j].depth = r.lines[i].depth - 1
         /\ \A k \in (j + 1)..(i - 1) : r.lines[k].depth >= r.lines[i].depth
ParentName(r, i) == IF ParentLine(r, i) = 0 THEN r.root ELSE r.lines[ParentLine(r, i)].name

\* C24: deptree prints, for each root service, its requires subtree: every
\* line is a service its parent line requires, and the services shown under
\* a root are exactly the root's transitive requires closure; with recursive
\* = false every service is printed at most once within one root's tree; what
\* one root's tree has shown suppresses nothing in another root's tree.
C24_Deptree ==
  Deptreed /\ result.exc = "None" =>
    /\ {result.roots[i].root : i \in 1..Len(result.roots)} = Roots
    /\ \A i, j \in 1..Len(result.roots) : result.roots[i].root = result.roots[j].root => i = j
    /\ \A n \in 1..Len(result.roots) :
          LET r == result.roots[n]
          IN /\ \A i \in 1..Len(r.lines) : r.lines[i].name \in _requires[ParentName(r, i)]
             /\ Shown(r) = RequiredBy(r.root)
             /\ ~call.recursive =>
                  \A i, j \in 1..Len(r.lines) : r.lines[i].name = r.lines[j].name => i = j
\* Without -r, two roots that both require a third service, one of them
\* also through the other: the third service is printed once under each.
C24_Witness ==
  /\ Deptreed /\ result.exc = "None" /\ ~call.recursive
  /\ \E m, n \in 1..Len(result.roots) :
        /\ m < n
        /\ result.roots[n].root \in _requires[result.roots[m].root]
        /\ \E s \in Shown(result.roots[m]) \cap Shown(result.roots[n]) :
              s \in _requires[result.roots[m].root]
        /\ Len(result.roots[m].lines) = 2
\* ------------------------------------------------------------ loader claims
Loaded == call.op = "load" /\ ncalls = 1
\* Two key nodes are the same key: the same string, or the same number (the
\* boolean true is the number 1).
KeyNumber(k) == IF k.tag = "int" THEN int(k.text) ELSE IF k.text = <<"t", "r", "u", "e">> THEN 1 ELSE 0
SameKey(k, l) ==
  \/ k.tag = "str" /\ l.tag = "str" /\ k.text = l.text
  \/ k.tag # "str" /\ l.tag # "str" /\ KeyNumber(k) = KeyNumber(l)
\* Some mapping of the document, at any level, has a key more than once.
RepeatsKey(pairs) == \E i, j \in 1..Len(pairs) : i # j /\ SameKey(pairs[i].key, pairs[j].key)
RECURSIVE HasDuplicateKey(_)
HasDuplicateKey(node) ==
  CASE node.kind = "scalar" -> FALSE
    [] node.kind = "sequence" -> \E i \in 1..Len(node.items) : HasDuplicateKey(node.items[i])
    [] OTHER -> \/ RepeatsKey(node.pairs)
                \/ \E i \in 1..Len(node.pairs) : HasDuplicateKey(node.pairs[i].value)
\* The value a node with no repeated key stands for: its pairs, one by one.
RECURSIVE Stands(_)
Stands(node) ==
  CASE node.kind = "scalar" -> [type |-> node.tag, value |-> node.text]
    [] node.kind = "sequence" ->
         [type |-> "list", items |-> [i \in 1..Len(node.items) |-> Stands(node.items[i])]]
    [] OTHER ->
         [type |-> "dict",
          items |-> [i \in 1..Len(node.pairs) |->
                       [key |-> Stands(node.pairs[i].key),
                        value |-> Stands(node.pairs[i].value)]]]

\* C29: loading a YAML mapping fails with a ConstructorError if and only if
\* some key occurs more than once in a mapping of it, at any nesting level; a
\* mapping whose keys are pairwise distinct is constructed with exactly its
\* key/value pairs.
C29_DuplicateKeys ==
  Loaded =>
    /\ result.exc = "ConstructorError" <=> HasDuplicateKey(call.node)
    /\ ~HasDuplicateKey(call.node) => result = Returns(Stands(call.node))
\* A repeated key in a mapping nested in a sequence, under a top mapping with
\* distinct keys, is rejected; and a mapping with the keys 1 and "1" is
\* constructed with both.
C29_Witness ==
  /\ Loaded
  /\ \/ /\ result.exc = "ConstructorError"
        /\ ~RepeatsKey(call.node.pairs) /\ Len(call.node.pairs) = 2
        /\ call.node.pairs[1].value.kind = "sequence"
        /\ call.node.pairs[2].value.kind = "scalar"
     \/ /\ result.exc = "None" /\ Len(result.value.items) = 2
        /\ call.node.pairs[1].key.tag = "int" /\ call.node.pairs[2].key.text = <<"1">>
        /\ call.node.pairs[1].value.kind = "mapping"
\* ------------------------------------------------------------ construction claims
Constructed == phase # "config"
\* The configuration errors: OrchestrationException and its subclasses.
ConfigurationErrors ==
  {"OrchestrationException", "EnvironmentConfigurationException",
   "InvalidPortSpecException", "InvalidVolumeConfigurationException",
   "DependencyException", "ParameterException"}

\* C30: a description without the environment name, or one in which a
\* service's requires or wants_info names a service that is not defined, is
\* rejected by the construction of the Conductor with a configuration error
\* (EnvironmentConfigurationException for the missing name), before any play
\* runs, also when the description has no instance.
C30_ConfigurationRejected ==
  (Constructed /\ (MissingName \/ HasUnknownDependency \/ HasUnknownWantsInfo)) =>
    /\ phase = "failed"
    /\ result.exc \in ConfigurationErrors
    /\ MissingName => result.exc = "EnvironmentConfigurationException"
    /\ pc = "idle"

\* ------------------------------------------------------------ SpecCache
\* One Container object asked for its status several times while the daemon
\* it is placed on gains and loses the container of its name.
InitCache ==
  /\ config = EntitiesConfig
  /\ docker \in [DOMAIN PlayInstances -> DockerStates]
  /\ phase = "config"
  /\ _requires = [s \in ServiceNames |-> {}]
  /\ _needed_for = [s \in ServiceNames |-> {}]
  /\ ordered_default = <<>>
  /\ ncalls = 0
  /\ call = NoCall
  /\ result = NoResult
  /\ IdlePlay
  /\ IdleExec

\* Container.status(refresh) : the daemon is asked when refresh is set or
\* nothing is cached; what it answers is cached and the cache is returned.
status(c, refresh) == IF refresh \/ AsksDaemon(c) THEN status_refreshed(c) ELSE _status[c]
Status ==
  /\ ncalls < MaxCalls
  /\ \E c \in Containers, refresh \in BOOLEAN :
       /\ _status' = [_status EXCEPT ![c] = status(c, refresh)]
       /\ result' = Returns(status(c, refresh))
       /\ call' = [op |-> "status", container |-> c, refresh |-> refresh]
  /\ ncalls' = ncalls + 1
  /\ UNCHANGED <<config, phase, _requires, _needed_for, ordered_default, docker>>
  /\ UNCHANGED <<cmd, _containers, idx, pc, task, log, results, active, exc>>
  /\ UNCHANGED auxvars

\* The daemon removes a container (remove_container of this or of another
\* client), or creates one of that name with a new id.
DaemonRemoves ==
  /\ \E c \in Containers :
       /\ Exists(c)
       /\ docker' = [docker EXCEPT ![c] = [@ EXCEPT !.state = "absent"]]
       /\ call' = [op |-> "remove_container", container |-> c, refresh |-> FALSE]
  /\ UNCHANGED <<config, phase, _requires, _needed_for, ordered_default, ncalls, result>>
  /\ UNCHANGED <<_status, cmd, _containers, idx, pc, task, log, results, active, exc>>
  /\ UNCHANGED auxvars
DaemonCreates ==
  /\ \E c \in Containers, st \in {"stopped", "running"} :
       /\ ~Exists(c) /\ docker[c].id < MaxCalls
       /\ docker' = [docker EXCEPT ![c] = [state |-> st, id |-> docker[c].id + 1]]
       /\ call' = [op |-> "create_container", container |-> c, refresh |-> FALSE]
  /\ UNCHANGED <<config, phase, _requires, _needed_for, ordered_default, ncalls, result>>
  /\ UNCHANGED <<_status, cmd, _containers, idx, pc, task, log, results, active, exc>>
  /\ UNCHANGED auxvars

NextCache == Status \/ DaemonRemoves \/ DaemonCreates

SpecCache == InitCache /\ [][NextCache]_vars
\* ------------------------------------------------------------ cache claims
Refreshed == call.op = "status" /\ call.refresh

\* C31: Container.status(refresh=True) returns the details the daemon has of
\* the container now, or None when the daemon has no container of that name,
\* also when an earlier call found one that has since been removed; after it
\* the cache describes no container the daemon does not have.
C31_RefreshedStatus ==
  Refreshed =>
    /\ result.value = IF Exists(call.container) THEN Inspect(call.container) ELSE NoStatus
    /\ ~Exists(call.container) => _status[call.container] = NoStatus
\* ------------------------------------------------------------ SpecWait
\* One call of Start._wait_for_status, poll by poll, while the daemon goes
\* on: `task` holds the arguments, the retries left, what cond gave on each
\* poll and what the call returned.
Waiting(c, needRunning) ==
  [container |-> c, needRunning |-> needRunning, retries |-> DefaultRetries,
   conds |-> <<>>, ret |-> "pending"]

InitWait ==
  /\ config = EntitiesConfig
  /\ docker \in [DOMAIN PlayInstances -> DockerStates]
  /\ phase = "config"
  /\ _requires = [s \in ServiceNames |-> {}]
  /\ _needed_for = [s \in ServiceNames |-> {}]
  /\ ordered_default = <<>>
  /\ ncalls = 0
  /\ call = NoCall
  /\ result = NoResult
  /\ _status \in [Containers -> {NoStatus, [Id |-> 1, Running |-> FALSE]}]
  /\ cmd = NoCmd
  /\ _containers = <<>>
  /\ idx = 0
  /\ pc = "idle"
  /\ task \in {Waiting(c, n) : c \in Containers, n \in BOOLEAN}
  /\ log = <<>>
  /\ results = <<>>
  /\ active = {}
  /\ exc = "None"
  /\ IdleExec

\* Start._wait_for_status : `while retries >= 0`.
polls_again_while_positive(retries) == retries > 0
polls_again(retries) == retries >= 0

\* Start._wait_for_status : one turn of the loop; the status is refreshed,
\* and the call returns True when cond holds on it, else sleeps and counts a
\* retry down.  An error of the daemon call other than APIError leaves the
\* function.
Poll ==
  /\ task.ret = "pending" /\ polls_again(task.retries)
  /\ \/ /\ task' = [task EXCEPT !.ret = "raise"]
        /\ exc' = "Exception"
        /\ UNCHANGED _status
     \/ LET st == status(task.container, TRUE)
            held == Cond(st, task.needRunning)
        IN /\ _status' = [_status EXCEPT ![task.container] = st]
           /\ task' = [task EXCEPT !.conds = Append(@, held),
                                   !.ret = IF held THEN "True" ELSE @,
                                   !.retries = IF held THEN @ ELSE @ - 1]
           /\ UNCHANGED exc
  /\ UNCHANGED planvars
  /\ UNCHANGED <<docker, cmd, _containers, idx, pc, log, results, active>>
  /\ UNCHANGED auxvars

\* Start._wait_for_status : `return False`, and Start._start_container :
\* `if not self._wait_for_status(...): raise OrchestrationException`.
GiveUp ==
  /\ task.ret = "pending" /\ ~polls_again(task.retries)
  /\ task' = [task EXCEPT !.ret = "False"]
  /\ exc' = "OrchestrationException"
  /\ UNCHANGED planvars
  /\ UNCHANGED <<docker, _status, cmd, _containers, idx, pc, log, results, active>>
  /\ UNCHANGED auxvars

\* The daemon starts the container or the container exits.
DaemonRuns ==
  /\ \E c \in Containers, st \in {"stopped", "running"} :
       /\ Exists(c) /\ docker[c].state # st
       /\ docker' = [docker EXCEPT ![c] = [@ EXCEPT !.state = st]]
       /\ call' = [op |-> "start", container |-> c, refresh |-> FALSE]
  /\ UNCHANGED <<config, phase, _requires, _needed_for, ordered_default, ncalls, result>>
  /\ UNCHANGED <<_status, cmd, _containers, idx, pc, task, log, results, active, exc>>
  /\ UNCHANGED auxvars

NextWait == Poll \/ GiveUp \/ DaemonRuns \/ DaemonRemoves \/ DaemonCreates

\* The loop runs on: time.sleep returns.
SpecWait == InitWait /\ [][NextWait]_vars /\ WF_vars(Poll) /\ WF_vars(GiveUp)
\* ------------------------------------------------------------ wait claims
NoneHeld(s) == \A i \in 1..Len(s) : ~s[i]
OnlyLastHeld(s) == s # <<>> /\ s[Len(s)] /\ NoneHeld(SubSeq(s, 1, Len(s) - 1))
WaitOutcome(maxPolls) ==
  /\ Len(task.conds) <= maxPolls
  /\ task.ret = "True" => OnlyLastHeld(task.conds) /\ exc = "None"
  /\ task.ret = "pending" => NoneHeld(task.conds) /\ exc = "None"
  /\ task.ret = "False" =>
       NoneHeld(task.conds) /\ Len(task.conds) = maxPolls /\ exc = "OrchestrationException"
  /\ (NoneHeld(task.conds) /\ Len(task.conds) = maxPolls /\ task.ret # "raise") =>
       task.ret \in {"False", "pending"}

\* C32: Start._wait_for_status always terminates: with retries=10 it
\* refreshes the status at most 10 times, returns True as soon as the
\* condition holds on a refreshed status, and returns False iff the condition
\* held on none of the polls, and then the start task fails with
\* OrchestrationException.
C32_WaitAtMostTenPolls == WaitOutcome(DefaultRetries)
\* C32 as amended: the status is refreshed at most retries + 1 = 11 times
\* (one poll and ten retries); the call ends, with True at the first poll on
\* which the condition holds, with False and OrchestrationException after 11
\* polls on which it did not, or with the error of the daemon call.
C32_WaitTerminates == [](WaitOutcome(DefaultRetries + 1)) /\ <>(task.ret # "pending")
\* The condition first holds on the eleventh poll; and it holds on none.
C32_Witness ==
  \/ task.ret = "True" /\ Len(task.conds) = DefaultRetries + 1 /\ task.needRunning
  \/ task.ret = "False" /\ Len(task.conds) = DefaultRetries + 1 /\ ~Exists(task.container)
\* ------------------------------------------------------------ SpecGather
\* The Conductor is built and _gather_dependencies is called once on a set
\* of its containers.
Gather ==
  /\ phase = "ready" /\ ncalls = 0
  /\ \E S \in SUBSET Containers, forward \in BOOLEAN :
       /\ call' = [op |-> "_gather_dependencies", containers |-> S,
                   forward |-> forward]
       /\ LET g == _gather_dependencies(S, forward)
          IN result' = IF g.ok THEN Returns(g.val) ELSE Raises("RuntimeError")
  /\ ncalls' = 1
  /\ UNCHANGED <<config, phase, _requires, _needed_for, ordered_default>>
  /\ UNCHANGED playvars
  /\ UNCHANGED auxvars

NextGather == Construct \/ Gather

SpecGather == InitPlan /\ [][NextGather]_vars
\* ------------------------------------------------------------ gather claims
GatherReturned == call.op = "_gather_dependencies" /\ ncalls = 1
\* The services one edge away from a set of services, in the direction
\* asked, and all the services reached from it over such edges.
EdgesOf(T, forward) == UNION {IF forward THEN _requires[s] ELSE _needed_for[s] : s \in T}
RECURSIVE ServicesReached(_, _)
ServicesReached(T, forward) ==
  IF EdgesOf(T, forward) \subseteq T THEN T
  ELSE ServicesReached(T \cup EdgesOf(T, forward), forward)
ServicesOf(S) == {config.instances[c] : c \in S}
\* The least set that holds S and, with a container, the containers of every
\* service reached from its service.
LeastFixpoint(S, forward) ==
  S \cup UNION {containers_of(s) : s \in ServicesReached(EdgesOf(ServicesOf(S), forward), forward)}

\* C33: the result of _gather_dependencies(S, direction) for a non-empty S is
\* the least fixpoint containing S: S, with every container of it all the
\* containers of the services its service requires (forward) or is needed for
\* (reverse), directly or not, and no container that is not reached from S on
\* those edges.
C33_GatherIsLeastFixpoint ==
  (GatherReturned /\ call.containers # {} /\ result.exc = "None") =>
    result.value = LeastFixpoint(call.containers, call.forward)
\* A container of a service two edges away from S is gathered, and a
\* container of the environment is left out.
C33_Witness ==
  /\ GatherReturned /\ call.containers # {} /\ result.exc = "None"
  /\ \E c \in result.value \ call.containers :
        config.instances[c] \notin EdgesOf(ServicesOf(call.containers), call.forward)
  /\ result.value # Containers
\* ------------------------------------------------------------ plan order claims
\* The containers a container waits for: those of the services reached from
\* its service in the direction of the call.
WaitsFor(c) ==
  UNION {containers_of(s) : s \in ReachedFrom(ServiceOf(c), call.forward)} \ {c}
NoEdgeAmongGathered == \A c \in Gathered : WaitsFor(c) = {}
Ascending(seq) == \A i, j \in 1..Len(seq) : i < j => Lt(seq[i], seq[j])

\* C34: the plan is reproducible, ties broken by ascending container name:
\* the containers ordered in one pass are in ascending name order (a
\* container that follows one of a greater name had to wait for a container
\* ordered before it), and when no gathered container waits for another the
\* plan is exactly the gathered containers in ascending name order.
C34_TiesByAscendingName ==
  (Planned /\ KnownThings /\ result.exc = "None") =>
    /\ \A i \in 1..(Len(result.plan) - 1) :
         Lt(result.plan[i + 1], result.plan[i]) =>
           \E j \in 1..i : result.plan[j] \in WaitsFor(result.plan[i + 1])
    /\ NoEdgeAmongGathered =>
         IsPermutationOf(result.plan, Gathered) /\ Ascending(result.plan)
\* ------------------------------------------------------------ plan state claims
\* What the same call returns as the first planning call of a process.
FreshPlan == _ordered_containers(call.things, call.forward, <<>>)

\* C36: planning keeps no state between calls: after any earlier
\* _ordered_containers calls, a call returns the same list as the first such
\* call of a fresh process, with each container of the gathered set exactly
\* once and no container of an earlier plan.
C36_PlanningKeepsNoState ==
  (Planned /\ KnownThings /\ result.exc = "None") =>
    /\ result.plan = FreshPlan.plan
    /\ IsPermutationOf(result.plan, Gathered)
\* ------------------------------------------------------------ SpecWire
\* The Conductor is built from a description drawn as for SpecLinks (chains
\* and cycles of requires among them) and one stop command runs its play on
\* containers that are all running.
Running1 == [state |-> "running", id |-> 1]

InitWire ==
  /\ \E E \in SUBSET Edges, m \in InstanceMaps :
       /\ Cardinality(E) <= MaxLinkEdges
       /\ config = [requires |-> RequiresOf(E), instances |-> m,
                    image |-> <<"a">>, registries |-> Registries, name |-> TestEnvName,
                    wants_info |-> NoWants, ships |-> ShipOf, ports |-> PortsOf]
  /\ docker = [c \in Containers |-> Running1]
  /\ phase = "config"
  /\ _requires = [s \in ServiceNames |-> {}]
  /\ _needed_for = [s \in ServiceNames |-> {}]
  /\ ordered_default = <<>>
  /\ ncalls = 0
  /\ call = NoCall
  /\ result = NoResult
  /\ IdlePlay
  /\ IdleExec

NextWire == Construct \/ CmdStop \/ StopInspect \/ StopCall

SpecWire == InitWire /\ [][NextWire]_vars
\* ------------------------------------------------------------ wiring claims
Wired == phase = "ready"
DirectInverse ==
  \A a, b \in ServiceNames : b \in _requires[a] <=> a \in _needed_for[b]
\* What Service.requires and Service.needed_for return, when they return, is
\* the inverse of what is reached over the direct edges of the other side.
TransitiveInverse ==
  \A a, b \in ServiceNames :
    /\ requires(a).ok =>
         (b \in requires(a).val <=> a \in ReachFrom(_needed_for, _needed_for[b]))
    /\ needed_for(b).ok =>
         (a \in needed_for(b).val <=> b \in ReachFrom(_requires, _requires[a]))

\* C35: once the Conductor is built the dependents are the exact inverse of
\* the dependencies: b is a direct dependency of a iff a is a direct dependent
\* of b, b is in a.requires iff a is in b.needed_for; and no play changes
\* either relation.
C35_DependentsInverse ==
  /\ [](Wired => DirectInverse /\ TransitiveInverse)
  /\ [][Wired => UNCHANGED <<_requires, _needed_for>>]_vars
\* A chain of two requires with the stop play run to its end on it.
C35_Witness ==
  /\ Wired /\ pc = "done" /\ results # <<>>
  /\ \E a, b, c \in ServiceNames :
       /\ b \in _requires[a] /\ c \in _requires[b] /\ c \notin _requires[a]
       /\ c \in requires(a).val /\ a \in needed_for(c).val
\* ------------------------------------------------------------ fast status claims
\* C37: the fast Status play reports a container as up only if the ship it
\* is placed on lists a container of that name whose Status begins with
\* "Up"; a container of the same name listed by another ship never makes it
\* appear up.
C37_UpOnlyOnOwnShip ==
  FastStatus =>
    \A i \in 1..Len(results) :
      results[i].label = "id" =>
        /\ Answered(config.ships[results[i].name])
        /\ docker[results[i].name].state = "running"
        /\ results[i].id = docker[results[i].name].id
\* ------------------------------------------------------------ SpecRegistry
\* The entity-building loop of Conductor.__init__ on a `services` section
\* given as it is written: each service with the names of its own instances,
\* the services in the order the dictionary yields them.
RegistryInstanceNames == {"c1", "c2"}
RegistryCalls ==
  {[op |-> "Conductor", services |-> d, order |-> o] :
     d \in [ServiceNames -> SUBSET RegistryInstanceNames],
     o \in {s \in [1..Cardinality(ServiceNames) -> ServiceNames] :
              \A i, j \in DOMAIN s : i # j => s[i] # s[j]}}

\* entities.Container(name, ship, service, ...) : a new object, an instance
\* of that service.
Container(name, service) == [name |-> name, service |-> service]
\* Container.__init__ : self._service.register_container(self), for every
\* instance of the service.
service_containers(services, kind) ==
  [name \in services[kind] |-> Container(name, kind)]
\* Conductor.__init__ : self.containers[name] = entities.Container(...), for
\* every instance of every service in turn.
RECURSIVE conductor_containers(_, _, _, _)
conductor_containers(services, order, i, built) ==
  IF i > Len(order) THEN built
  ELSE conductor_containers(services, order, i + 1,
         [name \in DOMAIN built \cup services[order[i]] |->
            IF name \in services[order[i]] THEN Container(name, order[i])
            ELSE built[name]])

InitRegistry ==
  /\ config = EntitiesConfig
  /\ docker = [c \in Containers |-> Absent]
  /\ phase = "config"
  /\ _requires = [s \in ServiceNames |-> {}]
  /\ _needed_for = [s \in ServiceNames |-> {}]
  /\ ordered_default = <<>>
  /\ ncalls = 0
  /\ call \in RegistryCalls
  /\ result = NoResult
  /\ IdlePlay
  /\ IdleExec

BuildEntities ==
  /\ call.op = "Conductor" /\ ncalls = 0
  /\ ncalls' = 1
  /\ result' = [exc |-> "None",
                containers |-> conductor_containers(call.services, call.order, 1, <<>>),
                services |-> [kind \in ServiceNames |->
                                service_containers(call.services, kind)]]
  /\ UNCHANGED <<config, phase, _requires, _needed_for, ordered_default, call>>
  /\ UNCHANGED playvars
  /\ UNCHANGED auxvars

NextRegistry == BuildEntities

SpecRegistry == InitRegistry /\ [][NextRegistry]_vars
\* ------------------------------------------------------------ registry claims
Built == call.op = "Conductor" /\ ncalls = 1
RegisteredIn(name) == {kind \in ServiceNames : name \in DOMAIN result.services[kind]}

\* C38: once the Conductor is built the container registries agree: a
\* container registered in a service is the object Conductor.containers
\* holds under its name, and a container of Conductor.containers is
\* registered in exactly one service, its own; a container name names one
\* container in the whole environment.
C38_RegistriesAgree ==
  Built =>
    /\ \A kind \in ServiceNames : \A name \in DOMAIN result.services[kind] :
         /\ name \in DOMAIN result.containers
         /\ result.containers[name] = result.services[kind][name]
    /\ \A name \in DOMAIN result.containers :
         RegisteredIn(name) = {result.containers[name].service}
\* ------------------------------------------------------------ audit claims
AuditPlayEnded == pc \in {"cmd_done", "cmd_raised", "exited"}
Outcomes == {i \in 1..Len(audit) : audit[i].call \in {"success", "error"}}

\* C39: every _audit_play whose auditor.action call was made ends with
\* exactly one outcome call, auditor.success or auditor.error, never both and
\* never neither, however play.run ended: a return, a Docker timeout, any
\* other exception, or an interrupt raised during the play.
C39_OneOutcome ==
  /\ Cardinality(Outcomes) <= 1
  /\ (AuditPlayEnded /\ audit # <<>>) => Cardinality(Outcomes) = 1

====
